---- MODULE Spec2Model ----
(***************************************************************************)
(* Model of the archive migration engine of UpscalePipe (package           *)
(* upscalebus): the overwrite-safety comparator (core/operation.py), the   *)
(* migration run with its backup-and-rollback executor (core/process.py,   *)
(* compare_and_copy_archives), the directory scanner and the archive check *)
(* (core/scan.py), the check batch (core/process.py,                       *)
(* process_corrupted_archives), the check journal (core/scan.py,           *)
(* load_check_history and save_check_history) and the planner              *)
(* (core/process.py, prepare_operations).                                  *)
(*                                                                         *)
(* Sizes are counted in units of the default min_valid_file_size (1 MiB);  *)
(* the thresholds, floats in the code, are percentages here, so that       *)
(* `a < b * t` becomes `a * 100 < b * t`.                                  *)
(***************************************************************************)
EXTENDS Integers, Sequences, FiniteSets, Bags, TLC

VARIABLES
    fs,             \* the file system: existing file path -> content
    cfg,            \* the configuration (config.config)
    cmp_args,       \* SpecCmp: <<source_path, target_path>> handed to the comparator
    cmp_result,     \* SpecCmp: what is_safe_to_overwrite returned, None before the call
    cmp_again,      \* SpecCmp: what a second call with the same arguments returned
    is_move,        \* compare_and_copy_archives: the is_move argument
    ops,            \* the ArchiveOperation objects the planner made, in plan order
    operations,     \* the list the executor walks: indices into ops
    pc,             \* where compare_and_copy_archives stands
    idx,            \* the loop index of the analysis loop, then of the executor loop
    success_count,
    error_count,
    skip_answer,    \* the answer to "skip the unsafe operations?": not_asked, yes, no
    now,            \* the wall clock, in seconds
    faults,         \* the number of library calls that have raised so far
    fs0,            \* history: the file system when the run started
    hist,           \* history: one record per operation the executor began, in order
    tree,           \* SpecScan: the directory handed to scan_directory_structure
    scan_result,    \* SpecScan: what scan_directory_structure returned, None before the call
    target_structure, \* SpecPlan: the scanned target directory of compare_and_copy_archives
    selected_source, \* SpecCleanup: the structure select_subdirectory returned
    removed_count, \* SpecCleanup: what remove_empty_directories returned
    removed_dirs,   \* SpecCleanup: the directories os.rmdir deleted, in call order
    tester_present, \* whether the 7z executable can be launched
    chk_call,       \* SpecCheck: [file_path, timeout] handed to check_archive
    flt_call,       \* SpecFilter: [only_safe, skip_existing] handed to filter_operations
    chk_return,     \* SpecCheck: what check_archive returned, None before the call
    launches,       \* the bag of the subprocess.run(['7z', 't', ..]) calls so far:
                    \* [file_path, timeout, outcome]
    log,            \* the bag of the lines logger.error has written so far: [event, file_path]
    skip_checked,   \* process_corrupted_archives: the argument skip_checked
    check_history,  \* process_corrupted_archives: what load_check_history returned
    files_to_process, \* process_corrupted_archives: the paths submitted to the executor
    futures,        \* per submitted file, the state of its future
    collected,      \* the futures as_completed has yielded so far
    future,         \* the loop variable of the collection loop and of the timeout handler
    l_file_path,    \* the local file_path of process_corrupted_archives
    l_new_path,     \* the local new_path of process_corrupted_archives
    journal,        \* the lines of archive_check_history.json
    valid_count,
    invalid_count,
    processed

cmpVars == <<cmp_args, cmp_result, cmp_again>>

runVars == <<is_move, ops, operations, pc, idx, success_count, error_count,
             skip_answer, now, faults, fs0, hist>>

(* the variables of the migration run that a check batch does not use *)
runRest == <<is_move, ops, operations, idx, success_count, error_count, skip_answer,
             now, fs0, hist>>

scanVars == <<tree, scan_result, target_structure, selected_source, removed_count, removed_dirs>>

callVars == <<chk_call, chk_return, flt_call>>

batchVars == <<files_to_process, futures, collected, future, l_file_path, l_new_path,
               journal, valid_count, invalid_count, processed>>

histVars == <<skip_checked, check_history>>

chkVars == <<tester_present, callVars, histVars, histVars, launches, log, batchVars>>

vars == <<fs, cfg, cmpVars, runVars, scanVars, chkVars>>

----------------------------------------------------------------------------
(* Bounds of the model *)

MaxSize == 3        \* largest file size
MaxEntries == 1     \* most entries of an archive
NOps == 2           \* operations of a migration run
MaxClock == 1       \* seconds the wall clock can advance during a run
MaxFaults == 2      \* library calls (makedirs, copy2, move) that may raise during a run
MaxItems == 2       \* most entries os.listdir returns for one directory
NFiles == 2         \* files submitted to one check batch
MaxBatchFaults == 1 \* calls (future.result, open, rename) that may raise during a check batch

(* Python's None; a record, so that it compares with the info records *)
None == [none |-> TRUE]

(* a local name no value has been assigned to yet *)
Unbound == [unbound |-> TRUE]

(* the variables of the archive check while no check is under way *)
NoCheck ==
    /\ tester_present = TRUE
    /\ chk_call = None
    /\ chk_return = None
    /\ flt_call = None
    /\ skip_checked = FALSE
    /\ check_history = << >>
    /\ launches = EmptyBag
    /\ log = EmptyBag
    /\ files_to_process = <<>>
    /\ futures = <<>>
    /\ collected = {}
    /\ future = Unbound
    /\ l_file_path = Unbound
    /\ l_new_path = Unbound
    /\ journal = <<>>
    /\ valid_count = 0
    /\ invalid_count = 0
    /\ processed = 0

----------------------------------------------------------------------------
(* Paths.  A path is [dir, base, ext, stamp, sfx]: the file                *)
(* dir/base<ext>, followed by ".<stamp>" when stamp = <<t>> and by sfx     *)
(* when sfx # "" (a backup is base<ext>.<t>.upbak).                        *)

(* the directory rel ("" for the root itself) of the tree at root *)
Dir(root, rel) == [root |-> root, rel |-> rel]

MkPath(dir, base, ext) == [dir |-> dir, base |-> base, ext |-> ext, stamp |-> <<>>, sfx |-> ""]

(* str.lower() on the extensions the model uses *)
Lower(e) ==
    CASE e = ".ZIP" -> ".zip"
      [] e = ".CBZ" -> ".cbz"
      [] e = ".TXT" -> ".txt"
      [] OTHER -> e

(* the last extension of a path, lower-cased: what path.lower().endswith(ext) looks at *)
LowerSuffix_IgnoreTdel(p) == Lower(p.ext)

LowerSuffix(p) == IF p.sfx # "" THEN Lower(p.sfx) ELSE Lower(p.ext)

(* any(path.lower().endswith(ext) for ext in extensions) *)
EndsWithAny(p, extensions) == LowerSuffix(p) \in extensions

----------------------------------------------------------------------------
(* Configuration defaults *)

MinValidFileSize == 1

DefaultArchiveExtensions == {".zip", ".cbz", ".rar", ".7z"}

DefaultIgnoredExtensions == {".md", ".yaml", ".yml", ".txt", ".json", ".db", ".ini"}

(* ConfigManager.get_value for the keys the engine reads *)
get_value(key) == cfg[key]

----------------------------------------------------------------------------
(* File contents.  A content is [id, size, zip, entries]: id names the     *)
(* bytes (two contents are byte-identical iff they are equal), size is the *)
(* file size, zip tells whether zipfile.ZipFile can open it, entries is    *)
(* the archive's member list, each [name, ext, dir, file_size].            *)

exists(p) == p \in DOMAIN fs

getsize(p) == fs[p].size

(* The members an archive of the model may hold *)
EntryPool ==
    { [name |-> "p", ext |-> ".jpg", dir |-> FALSE, file_size |-> 1],
      [name |-> "q", ext |-> ".jpg", dir |-> FALSE, file_size |-> 3],
      [name |-> "e", ext |-> ".jpg", dir |-> FALSE, file_size |-> 0],
      [name |-> "n", ext |-> ".TXT", dir |-> FALSE, file_size |-> 1],
      [name |-> "d", ext |-> "", dir |-> TRUE, file_size |-> 0] }

EntryLists == UNION { [1..n -> EntryPool] : n \in 0..MaxEntries }

RECURSIVE SumFileSize(_)
SumFileSize(s) == IF s = <<>> THEN 0 ELSE Head(s).file_size + SumFileSize(Tail(s))

(* the filter of the list comprehension in count_files_in_zip *)
IsValidEntry(e, ignore_extensions) ==
    /\ Lower(e.ext) \notin ignore_extensions
    /\ ~e.dir
    /\ e.file_size > 0

(* zipfile.ZipFile(zip_path) opens the archive in the default mode 'r':     *)
(* the file system after the open is the one before it                    *)
OpenZipFile_ForWriting(f, zip_path) ==
    IF zip_path \in DOMAIN f
    THEN [f EXCEPT ![zip_path] = [@ EXCEPT !.size = 0, !.entries = <<>>]]
    ELSE f

OpenZipFile(f, zip_path) == f

count_files_in_zip(zip_path) ==
    LET ignore_extensions == get_value("ignored_extensions")
    IN  IF exists(zip_path) /\ fs[zip_path].zip
        THEN LET valid_files == SelectSeq(fs[zip_path].entries,
                                          LAMBDA e : IsValidEntry(e, ignore_extensions))
             IN  <<Len(valid_files), SumFileSize(valid_files)>>
        ELSE <<0, 0>>

----------------------------------------------------------------------------
(* The safety comparator *)

Result(is_safe, reason, source_info, target_info) ==
    [is_safe |-> is_safe, reason |-> reason,
     source_info |-> source_info, target_info |-> target_info]

(* the size comparison with its operator reversed *)
SmallerThan_Reversed(a, b, pct) == a * 100 > b * pct

(* source_size < target_size * size_threshold, thresholds in percent *)
SmallerThan(a, b, pct) == a * 100 < b * pct

(* an archive test that asks for an archive extension on both paths *)
IsArchiveForCompare_Both(source_path, target_path) ==
    /\ EndsWithAny(source_path, get_value("archive_extensions"))
    /\ EndsWithAny(target_path, get_value("archive_extensions"))

(* the archive test of line 146: it looks at the source path *)
IsArchiveForCompare(source_path, target_path) ==
    EndsWithAny(source_path, get_value("archive_extensions"))

(* an archive branch without the content-size rule *)
CompareArchives_NoContentRule(source_path, target_path, size_info_s, size_info_t) ==
    LET file_count_threshold == get_value("file_count_difference_threshold")
        s == count_files_in_zip(source_path)
        t == count_files_in_zip(target_path)
        source_info == [size |-> size_info_s.size, files |-> s[1], content_size |-> s[2]]
        target_info == [size |-> size_info_t.size, files |-> t[1], content_size |-> t[2]]
    IN  IF s[1] * 100 < t[1] * (100 - file_count_threshold)
        THEN Result(FALSE, "fewer_files", source_info, target_info)
        ELSE Result(TRUE, "check_passed", source_info, target_info)

(* an archive branch that takes a source count of zero for "unknown" and skips the rules *)
CompareArchives_ZeroIsUnknown(source_path, target_path, size_info_s, size_info_t) ==
    LET size_threshold == get_value("size_difference_threshold")
        file_count_threshold == get_value("file_count_difference_threshold")
        s == count_files_in_zip(source_path)
        t == count_files_in_zip(target_path)
        source_info == [size |-> size_info_s.size, files |-> s[1], content_size |-> s[2]]
        target_info == [size |-> size_info_t.size, files |-> t[1], content_size |-> t[2]]
    IN  IF s[1] > 0 /\ s[1] * 100 < t[1] * (100 - file_count_threshold)
        THEN Result(FALSE, "fewer_files", source_info, target_info)
        ELSE IF s[1] > 0 /\ SmallerThan(s[2], t[2], size_threshold)
        THEN Result(FALSE, "smaller_content", source_info, target_info)
        ELSE Result(TRUE, "check_passed", source_info, target_info)

(* lines 146-157: the archive branch, given the two size infos *)
CompareArchives(source_path, target_path, size_info_s, size_info_t) ==
    LET size_threshold == get_value("size_difference_threshold")
        file_count_threshold == get_value("file_count_difference_threshold")
        s == count_files_in_zip(source_path)
        t == count_files_in_zip(target_path)
        source_info == [size |-> size_info_s.size, files |-> s[1], content_size |-> s[2]]
        target_info == [size |-> size_info_t.size, files |-> t[1], content_size |-> t[2]]
    IN  IF s[1] * 100 < t[1] * (100 - file_count_threshold)
        THEN Result(FALSE, "fewer_files", source_info, target_info)
        ELSE IF SmallerThan(s[2], t[2], size_threshold)
        THEN Result(FALSE, "smaller_content", source_info, target_info)
        ELSE Result(TRUE, "check_passed", source_info, target_info)

(* a target-missing case that never looks at the source size *)
TargetMissingCase_NoMinSize(source_path) ==
    Result(TRUE, "target_missing", [size |-> getsize(source_path)], None)

(* lines 122-127: the target does not exist *)
TargetMissingCase(source_path) ==
    LET min_size == get_value("min_valid_file_size")
        source_size == getsize(source_path)
    IN  IF source_size < min_size
        THEN Result(FALSE, "source_too_small", [size |-> source_size], None)
        ELSE Result(TRUE, "target_missing", [size |-> source_size], None)

(* lines 129-159: source and target both exist *)
TargetExistsCase(source_path, target_path) ==
    LET min_size == get_value("min_valid_file_size")
        size_threshold == get_value("size_difference_threshold")
        source_size == getsize(source_path)
        target_size == getsize(target_path)
        source_info == [size |-> source_size]
        target_info == [size |-> target_size]
    IN  IF source_size < min_size
        THEN Result(FALSE, "source_too_small", source_info, target_info)
        ELSE IF SmallerThan(source_size, target_size, size_threshold)
        THEN Result(FALSE, "source_smaller", source_info, target_info)
        ELSE IF IsArchiveForCompare(source_path, target_path)
        THEN CompareArchives(source_path, target_path, source_info, target_info)
        ELSE Result(TRUE, "check_passed", source_info, target_info)

(* a comparator that tests the target before the source *)
is_safe_to_overwrite_TargetFirst(source_path, target_path) ==
    IF ~exists(target_path)
    THEN IF exists(source_path)
         THEN TargetMissingCase(source_path)
         ELSE Result(FALSE, "source_too_small", [size |-> 0], None)
    ELSE IF ~exists(source_path)
    THEN Result(FALSE, "source_missing", None, None)
    ELSE TargetExistsCase(source_path, target_path)

is_safe_to_overwrite(source_path, target_path) ==
    IF ~exists(source_path)
    THEN Result(FALSE, "source_missing", None, None)
    ELSE IF ~exists(target_path)
    THEN TargetMissingCase(source_path)
    ELSE TargetExistsCase(source_path, target_path)

----------------------------------------------------------------------------
(* The migration run: compare_and_copy_archives.  The planner's output is  *)
(* taken as given: one operation per source archive, each with its own     *)
(* target path of the same file name.                                      *)

(* Python's truth values, kept apart from None *)
PyBool(b) == IF b THEN "True" ELSE "False"

(* ArchiveOperation.__init__ *)
ArchiveOperation(source_path, target_path, operation_type) ==
    [source_path |-> source_path, target_path |-> target_path,
     operation_type |-> operation_type,
     source_info |-> None, target_info |-> None,
     is_safe |-> "None", reason |-> "None",
     status |-> "pending", error_message |-> None, backup_path |-> None]

(* what a write that fails half way leaves behind *)
Partial == [id |-> "partial", size |-> 0, zip |-> FALSE, entries |-> <<>>]

(* the file system f with path p holding content c *)
WriteFile(f, p, c) == [q \in DOMAIN f \cup {p} |-> IF q = p THEN c ELSE f[q]]

(* the file system f without path p *)
RemoveFile(f, p) == [q \in DOMAIN f \ {p} |-> f[q]]

(* a completed shutil.copy2(src, dst) *)
CopyFile_Truncating(f, src, dst) == WriteFile(WriteFile(f, dst, f[src]), src, Partial)

CopyFile(f, src, dst) == WriteFile(f, dst, f[src])

(* a completed shutil.move(src, dst) *)
MoveFile_KeepSource(f, src, dst) == WriteFile(f, dst, f[src])

MoveFile(f, src, dst) == RemoveFile(WriteFile(f, dst, f[src]), src)

Min(a, b) == IF a < b THEN a ELSE b

(* backup_file, lines 180-188: file_name.<timestamp>.upbak in backup_dir or beside the file *)
BackupPath(file_path, backup_dir, timestamp) ==
    [dir |-> IF backup_dir # None THEN backup_dir ELSE file_path.dir,
     base |-> file_path.base, ext |-> file_path.ext,
     stamp |-> <<timestamp>>, sfx |-> ".upbak"]

(* analyze_operation, lines 229-233 *)
Analyzed_MarkSkipped(op) ==
    LET r == is_safe_to_overwrite(op.source_path, op.target_path)
    IN  [op EXCEPT !.is_safe = PyBool(r.is_safe), !.reason = r.reason,
                   !.source_info = r.source_info, !.target_info = r.target_info,
                   !.status = IF r.is_safe = TRUE THEN "pending" ELSE "skipped"]

Analyzed(op) ==
    LET r == is_safe_to_overwrite(op.source_path, op.target_path)
    IN  [op EXCEPT !.is_safe = PyBool(r.is_safe), !.reason = r.reason,
                   !.source_info = r.source_info, !.target_info = r.target_info]

(* lines 240-241 *)
safe_ops == SelectSeq([i \in 1..Len(ops) |-> i], LAMBDA i : ops[i].is_safe = "True")

unsafe_ops == SelectSeq([i \in 1..Len(ops) |-> i], LAMBDA i : ops[i].is_safe # "True")

(* a selection that keeps every operation whatever the answer *)
SelectOperations_KeepAll(skip) == [i \in 1..Len(ops) |-> i]

(* lines 259-260: the list the executor gets, given the answer to the skip question *)
SelectOperations(skip) ==
    IF unsafe_ops # <<>> /\ skip THEN safe_ops ELSE [i \in 1..Len(ops) |-> i]

(* the operation the executor loop is at *)
Current == operations[idx]

(* an executor loop that ends at the first failed operation *)
AfterOperation_StopOnError(failed) ==
    IF idx < Len(operations) /\ ~failed
    THEN [pc |-> "backup", idx |-> idx + 1]
    ELSE [pc |-> "report", idx |-> idx]

(* line 271: the for loop goes on to the next operation, failed or not *)
AfterOperation(failed) ==
    IF idx < Len(operations)
    THEN [pc |-> "backup", idx |-> idx + 1]
    ELSE [pc |-> "report", idx |-> idx]

(* a library call raises: the model lets at most MaxFaults of them do so *)
Raises == faults < MaxFaults /\ faults' = faults + 1

(* the same in a check batch *)
BatchRaises == faults < MaxBatchFaults /\ faults' = faults + 1

(* the history record of the operation under way, updated *)
Note(field, value) == [hist EXCEPT ![Len(hist)][field] = value]

(* lines 235-237: the analysis loop, one operation per step *)
AnalyzeOperation ==
    /\ pc = "analyze"
    /\ ops' = [ops EXCEPT ![idx] = Analyzed(ops[idx])]
    /\ IF idx < Len(ops)
       THEN idx' = idx + 1 /\ pc' = pc
       ELSE idx' = 0 /\ pc' = "confirm"
    /\ UNCHANGED <<fs, cfg, cmpVars, scanVars, chkVars, is_move, operations, success_count, error_count,
                   skip_answer, now, faults, fs0, hist>>

(* lines 253-255: "continue?" *)
ConfirmContinue ==
    /\ pc = "confirm"
    /\ \E answer \in BOOLEAN :
          pc' = IF answer THEN "confirm_skip" ELSE "cancelled"
    /\ UNCHANGED <<fs, cfg, cmpVars, scanVars, chkVars, is_move, ops, operations, idx, success_count,
                   error_count, skip_answer, now, faults, fs0, hist>>

(* lines 258-266: "skip the unsafe operations?", asked only when there are some *)
ConfirmSkipUnsafe ==
    /\ pc = "confirm_skip"
    /\ \E answer \in BOOLEAN :
          /\ skip_answer' = IF unsafe_ops = <<>> THEN "not_asked"
                            ELSE IF answer THEN "yes" ELSE "no"
          /\ operations' = SelectOperations(answer)
          /\ IF SelectOperations(answer) = <<>>
             THEN pc' = "report" /\ idx' = 0
             ELSE pc' = "backup" /\ idx' = 1
    /\ success_count' = 0
    /\ error_count' = 0
    /\ UNCHANGED <<fs, cfg, cmpVars, scanVars, chkVars, is_move, ops, now, faults, fs0, hist>>

(* lines 278-280 with backup_file: back the target up if it exists *)
BackupTarget ==
    /\ pc = "backup"
    /\ LET op == ops[Current]
           backup_dir == get_value("backup_dir")
           begun == Append(hist, [op |-> Current,
                                  before |-> IF exists(op.target_path)
                                             THEN fs[op.target_path] ELSE None,
                                  backup |-> "none", transfer |-> "none",
                                  restore |-> "none"])
       IN  IF ~exists(op.target_path)
           THEN /\ hist' = begun
                /\ pc' = "makedirs"
                /\ UNCHANGED <<fs, ops, now, faults>>
           ELSE \/ \* os.makedirs(backup_dir) raises
                   /\ backup_dir # None
                   /\ Raises
                   /\ hist' = begun
                   /\ pc' = "except"
                   /\ UNCHANGED <<fs, ops, now>>
                \/ \E timestamp \in now..Min(now + 1, MaxClock) :
                     LET backup_path == BackupPath(op.target_path, backup_dir, timestamp)
                     IN  /\ now' = timestamp
                         /\ pc' = "makedirs"
                         /\ \/ \* shutil.copy2 succeeds: the path is returned
                               /\ fs' = CopyFile(fs, op.target_path, backup_path)
                               /\ ops' = [ops EXCEPT ![Current].backup_path = backup_path]
                               /\ hist' = [begun EXCEPT ![Len(begun)].backup = "made"]
                               /\ UNCHANGED faults
                            \/ \* shutil.copy2 raises: logged, None is returned
                               /\ Raises
                               /\ \/ fs' = fs
                                  \/ fs' = WriteFile(fs, backup_path, Partial)
                               /\ ops' = [ops EXCEPT ![Current].backup_path = None]
                               /\ hist' = [begun EXCEPT ![Len(begun)].backup = "failed"]
    /\ UNCHANGED <<cfg, cmpVars, scanVars, chkVars, is_move, operations, idx, success_count, error_count,
                   skip_answer, fs0>>

(* lines 282-283: os.makedirs(target_dir, exist_ok=True) *)
MakeTargetDir ==
    /\ pc = "makedirs"
    /\ \/ pc' = "transfer" /\ UNCHANGED faults
       \/ Raises /\ pc' = "except"
    /\ UNCHANGED <<fs, cfg, cmpVars, scanVars, chkVars, is_move, ops, operations, idx, success_count,
                   error_count, skip_answer, now, fs0, hist>>

(* lines 285-291: shutil.move or shutil.copy2, then status success *)
MoveOrCopy ==
    /\ pc = "transfer"
    /\ LET op == ops[Current]
           src == op.source_path
           dst == op.target_path
       IN  \/ \* the call returns
              /\ exists(src)
              /\ fs' = IF op.operation_type = "move"
                       THEN MoveFile(fs, src, dst) ELSE CopyFile(fs, src, dst)
              /\ ops' = [ops EXCEPT ![Current].status = "success"]
              /\ success_count' = success_count + 1
              /\ hist' = Note("transfer", "ok")
              /\ pc' = AfterOperation(FALSE).pc
              /\ idx' = AfterOperation(FALSE).idx
              /\ UNCHANGED faults
           \/ \* no source file: the call raises, nothing is written
              /\ ~exists(src)
              /\ fs' = fs
              /\ hist' = Note("transfer", "failed")
              /\ pc' = "except"
              /\ UNCHANGED <<ops, success_count, idx, faults>>
           \/ \* the call raises: nothing written, the target half written, or the
              \* target written and the last step (copystat, unlink of the source) failed
              /\ exists(src)
              /\ Raises
              /\ \/ fs' = fs
                 \/ fs' = WriteFile(fs, dst, Partial)
                 \/ fs' = CopyFile(fs, src, dst)
              /\ hist' = Note("transfer", "failed")
              /\ pc' = "except"
              /\ UNCHANGED <<ops, success_count, idx>>
    /\ UNCHANGED <<cfg, cmpVars, scanVars, chkVars, is_move, operations, error_count, skip_answer, now, fs0>>

(* a restore that copies the source, not the backup, onto the target *)
RestoreFromBackup_FromSource(op) ==
    IF exists(op.source_path) THEN CopyFile(fs, op.source_path, op.target_path) ELSE fs

(* line 300: shutil.copy2(operation.backup_path, operation.target_path), completed *)
RestoreFromBackup(op) == CopyFile(fs, op.backup_path, op.target_path)

(* lines 292-305: the except clause: status error, best-effort restore *)
HandleError ==
    /\ pc = "except"
    /\ LET op == ops[Current]
       IN  /\ ops' = [ops EXCEPT ![Current].status = "error",
                                 ![Current].error_message = [str |-> "exception"]]
           /\ IF op.backup_path # None /\ exists(op.backup_path)
              THEN \/ /\ fs' = RestoreFromBackup(op)
                      /\ hist' = Note("restore", "ok")
                      /\ UNCHANGED faults
                   \/ \* the restore raises: logged, the target untouched or half written
                      /\ Raises
                      /\ \/ fs' = fs
                         \/ fs' = WriteFile(fs, op.target_path, Partial)
                      /\ hist' = Note("restore", "failed")
              ELSE UNCHANGED <<fs, hist, faults>>
    /\ error_count' = error_count + 1
    /\ pc' = AfterOperation(TRUE).pc
    /\ idx' = AfterOperation(TRUE).idx
    /\ UNCHANGED <<cfg, cmpVars, scanVars, chkVars, is_move, operations, success_count, skip_answer, now, fs0>>

(* lines 315-326: the final report *)
Report ==
    /\ pc = "report"
    /\ pc' = "done"
    /\ UNCHANGED <<fs, cfg, cmpVars, scanVars, chkVars, is_move, ops, operations, idx, success_count,
                   error_count, skip_answer, now, faults, fs0, hist>>

----------------------------------------------------------------------------
(* Spec: a migration run over every source/target pair of the bounds *)

(* the archive files of the source tree, as (relative directory, base name) *)
SourceFiles == << <<"", "a">>, <<"d", "a">>, <<"", "b">>, <<"d", "b">> >>

SourcePath(i) == MkPath(Dir("src", SourceFiles[i][1]), SourceFiles[i][2], ".zip")

TargetPath(i) == MkPath(Dir("tgt", SourceFiles[i][1]), SourceFiles[i][2], ".zip")

SourceIds == <<"s1", "s2", "s3", "s4">>

TargetIds == <<"t1", "t2", "t3", "t4">>

Archive(id, size, entries) == [id |-> id, size |-> size, zip |-> TRUE, entries |-> entries]

Picture(name, file_size) == [name |-> name, ext |-> ".jpg", dir |-> FALSE, file_size |-> file_size]

NewArchive(id) == Archive(id, 2, <<Picture("p", 1)>>)

BigArchive(id) == Archive(id, 3, <<Picture("q", 3)>>)

(* what source file i and target file i may be, None for a missing file:    *)
(* a new file, an equal target, a larger target, a source gone missing      *)
PairChoices(i) ==
    { <<NewArchive(SourceIds[i]), None>>,
      <<NewArchive(SourceIds[i]), NewArchive(TargetIds[i])>>,
      <<NewArchive(SourceIds[i]), BigArchive(TargetIds[i])>>,
      <<None, NewArchive(TargetIds[i])>> }

(* the file system in which source i holds s[i] and target i holds t[i] *)
RunFileSystem(s, t) ==
    LET present == { SourcePath(i) : i \in { j \in 1..NOps : s[j] # None } }
                   \cup { TargetPath(i) : i \in { j \in 1..NOps : t[j] # None } }
    IN  [p \in present |->
            LET i == CHOOSE j \in 1..NOps : p \in {SourcePath(j), TargetPath(j)}
            IN  IF p = SourcePath(i) THEN s[i] ELSE t[i]]

DefaultConfig ==
    [ min_valid_file_size |-> MinValidFileSize,
      size_difference_threshold |-> 50,
      file_count_difference_threshold |-> 0,
      archive_extensions |-> DefaultArchiveExtensions,
      file_operations_archive_extensions |-> DefaultArchiveExtensions,
      ignored_extensions |-> DefaultIgnoredExtensions,
      archive_check_timeout |-> 300,
      archive_check_min_timeout |-> 60,
      archive_check_max_timeout |-> 1800,
      archive_check_timeout_per_100mb |-> 60,
      processing_auto_remove_empty_dirs |-> TRUE,
      backup_dir |-> None ]

Init ==
    /\ \E backup_dir \in {None, Dir("bak", "")} :
          cfg = [DefaultConfig EXCEPT !.backup_dir = backup_dir]
    /\ \E c \in [1..NOps -> UNION { PairChoices(i) : i \in 1..NOps }] :
          /\ \A i \in 1..NOps : c[i] \in PairChoices(i)
          /\ fs = RunFileSystem([i \in 1..NOps |-> c[i][1]], [i \in 1..NOps |-> c[i][2]])
    /\ fs0 = fs
    /\ is_move \in BOOLEAN
    /\ ops = [i \in 1..NOps |->
                ArchiveOperation(SourcePath(i), TargetPath(i),
                                 IF is_move THEN "move" ELSE "copy")]
    /\ operations = <<>>
    /\ pc = "analyze"
    /\ idx = 1
    /\ success_count = 0
    /\ error_count = 0
    /\ skip_answer = "not_asked"
    /\ now = 0
    /\ faults = 0
    /\ hist = <<>>
    /\ cmp_args = <<None, None>>
    /\ cmp_result = None
    /\ cmp_again = None
    /\ tree = None
    /\ scan_result = None
    /\ target_structure = None
    /\ selected_source = None
    /\ removed_count = None
    /\ removed_dirs = <<>>
    /\ NoCheck

Next ==
    \/ AnalyzeOperation
    \/ ConfirmContinue
    \/ ConfirmSkipUnsafe
    \/ BackupTarget
    \/ MakeTargetDir
    \/ MoveOrCopy
    \/ HandleError
    \/ Report

Spec == Init /\ [][Next]_vars

----------------------------------------------------------------------------
(* SpecCmp: the comparator applied to every input of the bounds *)

Contents(id) ==
    { [id |-> id, size |-> n, zip |-> FALSE, entries |-> <<>>] : n \in 0..MaxSize }
    \cup
    { [id |-> id, size |-> n, zip |-> TRUE, entries |-> es] :
        n \in 0..MaxSize, es \in EntryLists }

SizeThresholds == {0, 50}

FileCountThresholds == {0, 100}

Configs ==
    [ min_valid_file_size : {MinValidFileSize},
      size_difference_threshold : SizeThresholds,
      file_count_difference_threshold : FileCountThresholds,
      archive_extensions : {DefaultArchiveExtensions},
      file_operations_archive_extensions : {DefaultArchiveExtensions},
      ignored_extensions : {DefaultIgnoredExtensions},
      archive_check_timeout : {300},
      archive_check_min_timeout : {60},
      archive_check_max_timeout : {1800},
      archive_check_timeout_per_100mb : {60},
      processing_auto_remove_empty_dirs : {TRUE},
      backup_dir : {None} ]

CmpSourcePaths == { MkPath(Dir("src", ""), "a", e) : e \in {".zip", ".CBZ", ".txt"} }

CmpTargetPaths == { MkPath(Dir("tgt", ""), "a", e) : e \in {".zip", ".txt"} }

(* the file systems holding at most a source and a target file *)
CmpFileSystems(sp, tp) ==
    LET both == { [p \in {sp, tp} |-> IF p = sp THEN cs ELSE ct] :
                    cs \in Contents("s"), ct \in Contents("t") }
        onlyS == { [p \in {sp} |-> cs] : cs \in Contents("s") }
        onlyT == { [p \in {tp} |-> ct] : ct \in Contents("t") }
    IN  both \cup onlyS \cup onlyT \cup { [p \in {} |-> None] }

InitCmp ==
    /\ cfg \in Configs
    /\ \E sp \in CmpSourcePaths, tp \in CmpTargetPaths :
          /\ cmp_args = <<sp, tp>>
          /\ fs \in CmpFileSystems(sp, tp)
    /\ cmp_result = None
    /\ cmp_again = None
    /\ tree = None
    /\ scan_result = None
    /\ target_structure = None
    /\ selected_source = None
    /\ removed_count = None
    /\ removed_dirs = <<>>
    /\ NoCheck
    /\ is_move = FALSE
    /\ ops = <<>>
    /\ operations = <<>>
    /\ pc = "compare"
    /\ idx = 0
    /\ success_count = 0
    /\ error_count = 0
    /\ skip_answer = "not_asked"
    /\ now = 0
    /\ faults = 0
    /\ fs0 = fs
    /\ hist = <<>>

(* one call of is_safe_to_overwrite *)
Evaluate ==
    /\ pc = "compare"
    /\ cmp_result = None
    /\ cmp_result' = is_safe_to_overwrite(cmp_args[1], cmp_args[2])
    /\ fs' = OpenZipFile(OpenZipFile(fs, cmp_args[1]), cmp_args[2])
    /\ UNCHANGED <<cfg, cmp_args, cmp_again, runVars, scanVars, chkVars>>

(* a second call with the same arguments *)
EvaluateAgain ==
    /\ pc = "compare"
    /\ cmp_result # None
    /\ cmp_again = None
    /\ cmp_again' = is_safe_to_overwrite(cmp_args[1], cmp_args[2])
    /\ fs' = OpenZipFile(OpenZipFile(fs, cmp_args[1]), cmp_args[2])
    /\ UNCHANGED <<cfg, cmp_args, cmp_result, runVars, scanVars, chkVars>>

NextCmp == Evaluate

SpecCmp == InitCmp /\ [][NextCmp]_vars

(* SpecCmpTwice: the comparator called twice on every input of the bounds *)
NextCmpTwice == Evaluate \/ EvaluateAgain

SpecCmpTwice == InitCmp /\ [][NextCmpTwice]_vars

----------------------------------------------------------------------------
(* Properties of the comparator, checked under SpecCmp.  The quantities    *)
(* the rules speak of are recomputed here from the file system, not taken  *)
(* from the comparator.                                                    *)

CmpSource == cmp_args[1]

CmpTarget == cmp_args[2]

Evaluated == cmp_result # None

BothExist == exists(CmpSource) /\ exists(CmpTarget)

PathIsArchive(p) == LowerSuffix(p) \in cfg.archive_extensions

(* the indices of the counted entries of a file content: none if it cannot be opened *)
CountedIn(c) ==
    IF c.zip
    THEN { i \in DOMAIN c.entries :
             LET e == c.entries[i]
             IN  ~e.dir /\ e.file_size > 0 /\ Lower(e.ext) \notin cfg.ignored_extensions }
    ELSE {}

RECURSIVE SumOver(_, _)
SumOver(c, I) ==
    IF I = {} THEN 0
    ELSE LET i == CHOOSE j \in I : TRUE
         IN  c.entries[i].file_size + SumOver(c, I \ {i})

EntryCountOf(c) == Cardinality(CountedIn(c))

ContentSizeOf(c) == SumOver(c, CountedIn(c))

EntryCount(p) == EntryCountOf(fs[p])

ContentSize(p) == ContentSizeOf(fs[p])

SizeOk == fs[CmpSource].size >= cfg.min_valid_file_size

RatioOk == fs[CmpSource].size * 100 >= fs[CmpTarget].size * cfg.size_difference_threshold

CountOk ==
    EntryCount(CmpSource) * 100
        >= EntryCount(CmpTarget) * (100 - cfg.file_count_difference_threshold)

ContentOk ==
    ContentSize(CmpSource) * 100 >= ContentSize(CmpTarget) * cfg.size_difference_threshold

(* C5: source and target exist and source size < target size x                *)
(* sizeDifferenceThreshold: the verdict is unsafe whatever the archives hold. *)
C5_SizeRatioUnsafe ==
    (Evaluated /\ BothExist /\ ~RatioOk) => cmp_result.is_safe = FALSE

(* the ratio fails although the source is large enough and holds more entries *)
C5_Witness ==
    /\ Evaluated /\ BothExist /\ ~RatioOk /\ SizeOk
    /\ PathIsArchive(CmpSource) /\ PathIsArchive(CmpTarget)
    /\ EntryCount(CmpSource) > EntryCount(CmpTarget)
    /\ cmp_result.is_safe = FALSE

(* C6: the source exists and the target does not: safe iff source size >=      *)
(* minValidSize, otherwise unsafe with reason "source too small"; the result   *)
(* carries the source size only, no archive contents are read.                 *)
C6_TargetMissing ==
    (Evaluated /\ exists(CmpSource) /\ ~exists(CmpTarget)) =>
        /\ cmp_result.is_safe = SizeOk
        /\ (~SizeOk => cmp_result.reason = "source_too_small")
        /\ cmp_result.source_info = [size |-> fs[CmpSource].size]
        /\ cmp_result.target_info = None

(* a large enough source archive that cannot even be opened is safe to copy to a free path *)
C6_Witness ==
    /\ Evaluated /\ exists(CmpSource) /\ ~exists(CmpTarget)
    /\ PathIsArchive(CmpSource) /\ ~fs[CmpSource].zip /\ SizeOk
    /\ cmp_result.is_safe = TRUE

(* C7: the source does not exist: unsafe, "source missing", no metadata,       *)
(* whether or not the target exists.                                           *)
C7_SourceMissing ==
    (Evaluated /\ ~exists(CmpSource)) =>
        cmp_result = Result(FALSE, "source_missing", None, None)

(* the source is missing and the target is too *)
C7_Witness ==
    /\ Evaluated /\ ~exists(CmpSource) /\ ~exists(CmpTarget)
    /\ cmp_result.reason = "source_missing"

(* the reason of the first failing rule, in the order of C8 *)
FirstFailing ==
    IF ~SizeOk THEN "source_too_small"
    ELSE IF ~RatioOk THEN "source_smaller"
    ELSE IF ~CountOk THEN "fewer_files"
    ELSE IF ~ContentOk THEN "smaller_content"
    ELSE "check_passed"

(* C8: source archive and target archive both exist: safe exactly when the     *)
(* size, size-ratio, entry-count and content-size rules all hold; otherwise    *)
(* unsafe with the reason of the first failing rule.                           *)
C8_ArchiveVerdict ==
    (Evaluated /\ BothExist /\ PathIsArchive(CmpSource) /\ PathIsArchive(CmpTarget)) =>
        /\ cmp_result.is_safe = (SizeOk /\ RatioOk /\ CountOk /\ ContentOk)
        /\ cmp_result.reason = FirstFailing

(* equal entry counts, the content-size rule is the first to fail *)
C8_Witness ==
    /\ Evaluated /\ BothExist /\ PathIsArchive(CmpSource) /\ PathIsArchive(CmpTarget)
    /\ SizeOk /\ RatioOk /\ CountOk /\ ~ContentOk
    /\ EntryCount(CmpTarget) > 0
    /\ cmp_result.reason = "smaller_content"

(* the size rules have let the pair through to the archive test *)
ReachedArchiveTest == Evaluated /\ BothExist /\ SizeOk /\ RatioOk

(* the comparator opened the archives: the infos carry entry counts *)
Compared == Evaluated /\ "files" \in DOMAIN cmp_result.source_info

UnopenableIsZero ==
    Compared =>
        /\ ~fs[CmpSource].zip =>
              (cmp_result.source_info.files = 0 /\ cmp_result.source_info.content_size = 0)
        /\ ~fs[CmpTarget].zip =>
              (cmp_result.target_info.files = 0 /\ cmp_result.target_info.content_size = 0)

(* a source archive that cannot be opened against a readable target with a counted entry *)
UnopenableSourceCase ==
    /\ Evaluated /\ BothExist /\ PathIsArchive(CmpSource) /\ PathIsArchive(CmpTarget)
    /\ ~fs[CmpSource].zip /\ fs[CmpTarget].zip /\ EntryCount(CmpTarget) >= 1

(* C10 as claimed: an unopenable archive counts as zero entries and zero size, *)
(* and an unopenable source is unsafe against any readable target with a       *)
(* counted entry.                                                              *)
C10_UnopenableUnsafe ==
    /\ UnopenableIsZero
    /\ UnopenableSourceCase => cmp_result.is_safe = FALSE

(* C10 amended: ... is unsafe provided fileCountDifferenceThreshold < 1 or     *)
(* sizeDifferenceThreshold > 0 (with both rules switched off by the            *)
(* configuration the zero counts pass).                                        *)
C10_UnopenableUnsafeIfRulesOn ==
    /\ UnopenableIsZero
    /\ (/\ UnopenableSourceCase
        /\ (cfg.file_count_difference_threshold < 100 \/ cfg.size_difference_threshold > 0))
          => cmp_result.is_safe = FALSE

(* the unopenable source passes the size rules and is refused on its zero entries *)
C10_Witness ==
    /\ UnopenableSourceCase /\ SizeOk /\ RatioOk
    /\ cmp_result.source_info.files = 0
    /\ cmp_result.reason = "fewer_files"

----------------------------------------------------------------------------
(* Properties of the migration run, checked under Spec *)

(* the rules of the comparator, on the files as they were when the run started *)
UnsafeAtStart(k) ==
    LET sp == ops[k].source_path
        tp == ops[k].target_path
    IN  \/ sp \notin DOMAIN fs0
        \/ fs0[sp].size < cfg.min_valid_file_size
        \/ /\ tp \in DOMAIN fs0
           /\ \/ fs0[sp].size * 100 < fs0[tp].size * cfg.size_difference_threshold
              \/ EntryCountOf(fs0[sp]) * 100
                    < EntryCountOf(fs0[tp]) * (100 - cfg.file_count_difference_threshold)
              \/ ContentSizeOf(fs0[sp]) * 100
                    < ContentSizeOf(fs0[tp]) * cfg.size_difference_threshold

(* C1: when the user accepts skipping the unsafe operations, every operation  *)
(* the executor takes up has verdict safe, and a target that existed before   *)
(* the run and whose source the comparator's rules refuse keeps its content.  *)
C1_OnlySafeExecuted ==
    skip_answer = "yes" =>
        /\ \A j \in 1..Len(hist) : ops[hist[j].op].is_safe = "True"
        /\ \A k \in 1..Len(ops) :
              /\ ops[k].status # "pending" => ops[k].is_safe = "True"
              /\ (ops[k].target_path \in DOMAIN fs0 /\ UnsafeAtStart(k)) =>
                    /\ exists(ops[k].target_path)
                    /\ fs[ops[k].target_path] = fs0[ops[k].target_path]

(* a finished run that skipped an unsafe overwrite and made a safe one *)
C1_Witness ==
    /\ pc = "done" /\ skip_answer = "yes"
    /\ \E k \in 1..Len(ops) :
          /\ ops[k].is_safe = "False" /\ ops[k].status = "pending"
          /\ ops[k].source_path \in DOMAIN fs0 /\ ops[k].target_path \in DOMAIN fs0
          /\ fs[ops[k].target_path] = fs0[ops[k].target_path]
    /\ \E k \in 1..Len(ops) :
          /\ ops[k].status = "success"
          /\ ops[k].target_path \in DOMAIN fs0
          /\ fs[ops[k].target_path] = fs0[ops[k].source_path]

(* C2: when the move or copy onto an existing target starts, a backup holding *)
(* the target's content exists and operation.backup_path names it.            *)
C2_BackupBeforeOverwrite ==
    (pc = "transfer" /\ exists(ops[Current].target_path)) =>
        /\ ops[Current].backup_path # None
        /\ exists(ops[Current].backup_path)
        /\ fs[ops[Current].backup_path] = hist[Len(hist)].before

(* the operations whose target existed, was backed up, and whose move or copy failed *)
FailedAfterBackup ==
    { j \in 1..Len(hist) :
        /\ ops[hist[j].op].status = "error"
        /\ hist[j].before # None
        /\ hist[j].backup = "made"
        /\ hist[j].transfer = "failed" }

TargetAsBefore(j) ==
    /\ exists(ops[hist[j].op].target_path)
    /\ fs[ops[hist[j].op].target_path] = hist[j].before

(* C3 as claimed: after a move or copy that failed once the backup was made,  *)
(* the target holds its pre-operation content.                                *)
C3_RollbackIdentical == \A j \in FailedAfterBackup : TargetAsBefore(j)

(* C3 amended: ... the target holds its pre-operation content provided the    *)
(* restore copy succeeds; when the restore copy fails too, the target may be  *)
(* left half written.                                                         *)
C3_RollbackIfRestored ==
    \A j \in FailedAfterBackup : hist[j].restore = "ok" => TargetAsBefore(j)

(* a failed move or copy onto an existing target, rolled back *)
C3_Witness ==
    \E j \in FailedAfterBackup :
        /\ hist[j].restore = "ok"
        /\ TargetAsBefore(j)
        /\ ops[hist[j].op].source_path \in DOMAIN fs0

(* C4: the executor takes the approved operations one at a time in list       *)
(* order; a failure does not end the batch: at the report every approved      *)
(* operation has been begun and is success or error (with a message), and     *)
(* success_count + error_count is their number.                               *)
C4_BatchContinues ==
    /\ Len(hist) <= Len(operations)
    /\ \A j \in 1..Len(hist) :
          /\ hist[j].op = operations[j]
          /\ j < Len(hist) => ops[hist[j].op].status \in {"success", "error"}
    /\ pc \in {"report", "done"} =>
          /\ Len(hist) = Len(operations)
          /\ \A i \in 1..Len(operations) :
                /\ ops[operations[i]].status \in {"success", "error"}
                /\ ops[operations[i]].status = "error" =>
                      ops[operations[i]].error_message # None
          /\ success_count + error_count = Len(operations)

(* the first operation failed, its restore failed too, and the next one succeeded *)
C4_Witness ==
    /\ pc = "done" /\ Len(operations) >= 2
    /\ ops[operations[1]].status = "error" /\ hist[1].restore = "failed"
    /\ ops[operations[2]].status = "success"

----------------------------------------------------------------------------
----------------------------------------------------------------------------
(* SpecScan: scan_directory_structure applied to every directory of the    *)
(* bounds.  A directory is [listable, items]: os.listdir raises when       *)
(* listable is FALSE and else returns items, in that order.  An item is a  *)
(* file [kind, name, ext, size, stat_ok] (os.path.getsize raises when      *)
(* stat_ok is FALSE: a dangling link, a file deleted meanwhile) or a       *)
(* directory [kind, name, ext, listable, items].                           *)

RECURSIVE SeqSum(_)
SeqSum(s) == IF s = <<>> THEN 0 ELSE Head(s) + SeqSum(Tail(s))

(* os.path.join(root_dir, dir_name) *)
JoinDir(root_dir, dir_name) ==
    Dir(root_dir.root, IF root_dir.rel = "" THEN dir_name ELSE root_dir.rel \o "/" \o dir_name)

(* file_info of the item found in root_dir *)
(* the last part of the name a directory entry has: ".tdel" for a tombstone *)
ItemSuffix(item) == IF "sfx" \in DOMAIN item THEN item.sfx ELSE ""

ItemPath(root_dir, item) ==
    [MkPath(root_dir, item.name, item.ext) EXCEPT !.sfx = ItemSuffix(item)]

FileInfo(root_dir, item, archive_extensions) ==
    [ name |-> IF ItemSuffix(item) = "" THEN <<item.name, item.ext>>
               ELSE <<item.name, item.ext, item.sfx>>,
      path |-> ItemPath(root_dir, item),
      size |-> item.size,
      is_archive |-> EndsWithAny(ItemPath(root_dir, item), archive_extensions) ]

(* what one file adds to result["total_size"] *)
SizeCounted_ArchivesOnly(file_info) == IF file_info.is_archive THEN file_info.size ELSE 0

SizeCounted(file_info) == file_info.size

(* what one file adds to result["archive_count"] *)
ArchiveCounted(file_info) == IF file_info.is_archive THEN 1 ELSE 0

RECURSIVE scan_directory_structure(_, _)
scan_directory_structure(root_dir, d) ==
    LET archive_extensions == get_value("file_operations_archive_extensions")
        result == [ path |-> root_dir,
                    name |-> IF root_dir.rel = "" THEN root_dir.root ELSE root_dir.rel,
                    subdirs |-> <<>>,
                    files |-> <<>>,
                    archive_count |-> 0,
                    total_size |-> 0 ]
        items == d.items
        raising == { i \in 1..Len(items) : items[i].kind = "file" /\ ~items[i].stat_ok }
        (* the items the first loop handled before getsize raised, if it did *)
        handled == IF raising = {} THEN items
                   ELSE SubSeq(items, 1, (CHOOSE i \in raising : \A j \in raising : i <= j) - 1)
        dirs == SelectSeq(handled, LAMBDA item : item.kind = "dir")
        plain == SelectSeq(handled, LAMBDA item : item.kind = "file")
        files == [i \in 1..Len(plain) |-> FileInfo(root_dir, plain[i], archive_extensions)]
        own_count == SeqSum([i \in 1..Len(files) |-> ArchiveCounted(files[i])])
        own_size == SeqSum([i \in 1..Len(files) |-> SizeCounted(files[i])])
        subdirs == [i \in 1..Len(dirs) |->
                      scan_directory_structure(JoinDir(root_dir, dirs[i].name), dirs[i])]
    IN  IF ~d.listable
        THEN result
        ELSE IF raising # {}
        THEN [result EXCEPT !.archive_count = own_count, !.total_size = own_size]
        ELSE [result EXCEPT
                !.subdirs = subdirs,
                !.archive_count = own_count
                    + SeqSum([i \in 1..Len(subdirs) |-> subdirs[i].archive_count]),
                !.total_size = own_size
                    + SeqSum([i \in 1..Len(subdirs) |-> subdirs[i].total_size]),
                !.files = files]

File(name, ext, size, stat_ok) ==
    [kind |-> "file", name |-> name, ext |-> ext, size |-> size, stat_ok |-> stat_ok]

ScanFilePool ==
    { File("a", ".zip", 1, TRUE), File("B", ".CBZ", 2, TRUE),
      File("n", ".txt", 3, TRUE), File("x", ".zip", 1, FALSE) }

ScanDirNames == {"d", "e"}

(* the listings os.listdir can return: no name twice *)
Listings(pool) ==
    { s \in UNION { [1..n -> pool] : n \in 0..MaxItems } :
        \A i, j \in 1..Len(s) : i # j => <<s[i].name, s[i].ext>> # <<s[j].name, s[j].ext>> }

Unlistable == [listable |-> FALSE, items |-> <<>>]

LeafDirs == { [listable |-> TRUE, items |-> s] : s \in Listings(ScanFilePool) } \cup {Unlistable}

SubDirItems ==
    { [kind |-> "dir", name |-> n, ext |-> "", listable |-> d.listable, items |-> d.items] :
        n \in ScanDirNames, d \in LeafDirs }

ScanTrees ==
    { [listable |-> TRUE, items |-> s] : s \in Listings(ScanFilePool \cup SubDirItems) }
    \cup {Unlistable}

ScanRoot == Dir("src", "")

InitScan ==
    /\ tree \in ScanTrees
    /\ scan_result = None
    /\ target_structure = None
    /\ selected_source = None
    /\ removed_count = None
    /\ removed_dirs = <<>>
    /\ NoCheck
    /\ cfg = DefaultConfig
    /\ fs = [p \in {} |-> None]
    /\ fs0 = fs
    /\ cmp_args = <<None, None>>
    /\ cmp_result = None
    /\ cmp_again = None
    /\ is_move = FALSE
    /\ ops = <<>>
    /\ operations = <<>>
    /\ pc = "scan"
    /\ idx = 0
    /\ success_count = 0
    /\ error_count = 0
    /\ skip_answer = "not_asked"
    /\ now = 0
    /\ faults = 0
    /\ hist = <<>>

Scan ==
    /\ pc = "scan"
    /\ scan_result = None
    /\ scan_result' = scan_directory_structure(ScanRoot, tree)
    /\ UNCHANGED <<fs, cfg, cmpVars, runVars, tree, target_structure, selected_source,
                   removed_count, removed_dirs, chkVars>>

NextScan == Scan

SpecScan == InitScan /\ [][NextScan]_vars

----------------------------------------------------------------------------
(* Properties of the scanner, checked under SpecScan.  What a directory    *)
(* holds is read from the input tree, not from the scanner's result.       *)

Scanned == scan_result # None

RECURSIVE Nodes(_)
Nodes(n) == {n} \cup UNION { Nodes(n.subdirs[i]) : i \in 1..Len(n.subdirs) }

ScanNodes == IF Scanned THEN Nodes(scan_result) ELSE {}

(* the directory of the input tree that the node at path was made for *)
DirAt(path) ==
    IF path.rel = "" THEN tree
    ELSE LET i == CHOOSE k \in 1..Len(tree.items) :
                    tree.items[k].kind = "dir" /\ tree.items[k].name = path.rel
         IN  tree.items[i]

FileItems(d) == { i \in 1..Len(d.items) : d.items[i].kind = "file" }

DirItems(d) == { i \in 1..Len(d.items) : d.items[i].kind = "dir" }

(* reading the directory failed: listing it, or the size of one of its entries *)
FailedDir(d) == ~d.listable \/ \E i \in FileItems(d) : ~d.items[i].stat_ok

(* the files whose size the scan read: those listed before the first one   *)
(* whose size could not be read                                            *)
StatRead(d) ==
    { i \in FileItems(d) : d.listable /\ \A j \in FileItems(d) : j <= i => d.items[j].stat_ok }

RECURSIVE SumItemSizes(_, _)
SumItemSizes(d, I) ==
    IF I = {} THEN 0
    ELSE LET i == CHOOSE k \in I : TRUE
         IN  d.items[i].size + SumItemSizes(d, I \ {i})

SubdirCounts(n) == SeqSum([i \in 1..Len(n.subdirs) |-> n.subdirs[i].archive_count])

SubdirSizes(n) == SeqSum([i \in 1..Len(n.subdirs) |-> n.subdirs[i].total_size])

ListedArchives(n) == { i \in 1..Len(n.files) : n.files[i].is_archive }

(* C12: in every tree the scan returns, each node's archive_count is the   *)
(* number of archive files in the node's own file list plus the            *)
(* archive_count of its sub-directory nodes, also when listing or stat-ing *)
(* a directory failed.                                                     *)
C12_ArchiveCountAggregates ==
    \A n \in ScanNodes :
        n.archive_count = Cardinality(ListedArchives(n)) + SubdirCounts(n)

(* C13 as stated: each node's total_size is the sum of the sizes of its    *)
(* own archive files plus the total_size of its sub-directory nodes;       *)
(* non-archive files do not contribute.                                    *)
C13_ArchiveSizesOnly ==
    \A n \in ScanNodes :
        n.total_size = SeqSum([i \in 1..Len(n.files) |->
                                 IF n.files[i].is_archive THEN n.files[i].size ELSE 0])
                       + SubdirSizes(n)

(* C13 amended: each node's total_size is the sum of the sizes of all      *)
(* files, archive or not, whose size the scan read in the node's           *)
(* directory, plus the total_size of its sub-directory nodes; for a        *)
(* directory read without error those files are the node's file list.      *)
C13_AllSizesRead ==
    \A n \in ScanNodes :
        LET d == DirAt(n.path)
        IN  /\ n.total_size = SumItemSizes(d, StatRead(d)) + SubdirSizes(n)
            /\ ~FailedDir(d) =>
                  n.total_size = SeqSum([i \in 1..Len(n.files) |-> n.files[i].size])
                                 + SubdirSizes(n)

C13_Witness ==
    /\ Scanned
    /\ \E i \in 1..Len(scan_result.files) :
          ~scan_result.files[i].is_archive /\ scan_result.files[i].size > 0
    /\ \E j \in 1..Len(scan_result.subdirs) : scan_result.subdirs[j].archive_count > 0

(* C14: a directory whose reading failed (listing it, or reading the size  *)
(* of one of its entries) gets a node with empty sub-directory and file    *)
(* lists that adds zero to the archive_count and total_size of its         *)
(* ancestors, the root's scan still returns a tree, and the sibling        *)
(* directories are scanned normally.                                       *)
C14_FailuresLocalized ==
    /\ \A n \in ScanNodes :
          FailedDir(DirAt(n.path)) =>
              /\ n.subdirs = <<>>
              /\ n.files = <<>>
              /\ n.archive_count = 0
              /\ n.total_size = 0
    /\ (Scanned /\ ~FailedDir(tree)) =>
          /\ Len(scan_result.subdirs) = Cardinality(DirItems(tree))
          /\ \A j \in 1..Len(scan_result.subdirs) :
                LET d == DirAt(scan_result.subdirs[j].path)
                IN  ~FailedDir(d) =>
                       Len(scan_result.subdirs[j].files) = Cardinality(FileItems(d))

----------------------------------------------------------------------------
(* The archive check: check_archive (core/scan.py).  File sizes are in     *)
(* MiB, so file_size // (100 * 1024 * 1024) is size \div 100.              *)

Bytes100MB == 100

Max(a, b) == IF a > b THEN a ELSE b

(* the timeout argument, or the configured one when it is None *)
BaseTimeout(timeout) ==
    IF timeout = None THEN get_value("archive_check_timeout") ELSE timeout.value

(* dynamic_timeout, from the timeout the call starts with *)
DynamicTimeout_Unclamped(file_path, timeout) ==
    IF exists(file_path)
    THEN timeout + (getsize(file_path) \div Bytes100MB)
                       * get_value("archive_check_timeout_per_100mb")
    ELSE timeout

DynamicTimeout(file_path, timeout) ==
    LET min_timeout == get_value("archive_check_min_timeout")
        max_timeout == get_value("archive_check_max_timeout")
        timeout_per_100mb == get_value("archive_check_timeout_per_100mb")
    IN  IF exists(file_path)        \* os.path.getsize(file_path) does not raise
        THEN Max(min_timeout,
                 Min(max_timeout,
                     timeout + (getsize(file_path) \div Bytes100MB) * timeout_per_100mb))
        ELSE timeout

(* what subprocess.run(['7z', 't', file_path], timeout = ..) can do; the    *)
(* handler of OSError (lines 139-141) does what the one of Exception does, *)
(* "Exception" stands for both                                             *)
TesterOutcomes(file_path) ==
    IF ~tester_present THEN {"FileNotFoundError"}
    ELSE IF ~exists(file_path) THEN {"exit_nonzero"}
    ELSE { IF fs[file_path].zip THEN "exit_zero" ELSE "exit_nonzero",
           "TimeoutExpired", "PermissionError", "Exception" }

(* the message logger.error writes for an outcome; the one for a missing   *)
(* 7z does not name the file                                               *)
ErrorLogged(file_path, outcome) ==
    [event |-> outcome, file_path |-> IF outcome = "FileNotFoundError" THEN None ELSE file_path]

(* check_archive: what it returns, the tester call it made, what it logged *)
check_archive(file_path, timeout, outcome) ==
    [ returned |-> outcome = "exit_zero",
      launch |-> [ file_path |-> file_path,
                   timeout |-> DynamicTimeout(file_path, BaseTimeout(timeout)),
                   outcome |-> outcome ],
      logged |-> IF outcome = "exit_zero" THEN EmptyBag
                 ELSE SetToBag({ErrorLogged(file_path, outcome)}) ]

----------------------------------------------------------------------------
(* SpecCheck: one call of check_archive on every input of the bounds *)

CheckedFile == MkPath(Dir("chk", ""), "a", ".zip")

CheckSizes == {0, 99, 100, 250, 2600}

TimeoutArguments == {None, [value |-> 30], [value |-> 2000]}

ConfiguredTimeouts == {300, 30}

InitCheck ==
    /\ \E t \in ConfiguredTimeouts : cfg = [DefaultConfig EXCEPT !.archive_check_timeout = t]
    /\ fs \in { [p \in {} |-> None] }
              \cup { [p \in {CheckedFile} |-> [id |-> "c", size |-> n, zip |-> z, entries |-> <<>>]] :
                       n \in CheckSizes, z \in BOOLEAN }
    /\ fs0 = fs
    /\ tester_present \in BOOLEAN
    /\ chk_call \in [file_path : {CheckedFile}, timeout : TimeoutArguments]
    /\ chk_return = None
    /\ flt_call = None
    /\ skip_checked = FALSE
    /\ check_history = << >>
    /\ launches = EmptyBag
    /\ log = EmptyBag
    /\ files_to_process = <<>>
    /\ futures = <<>>
    /\ collected = {}
    /\ future = Unbound
    /\ l_file_path = Unbound
    /\ l_new_path = Unbound
    /\ journal = <<>>
    /\ valid_count = 0
    /\ invalid_count = 0
    /\ processed = 0
    /\ tree = None
    /\ scan_result = None
    /\ target_structure = None
    /\ selected_source = None
    /\ removed_count = None
    /\ removed_dirs = <<>>
    /\ cmp_args = <<None, None>>
    /\ cmp_result = None
    /\ cmp_again = None
    /\ is_move = FALSE
    /\ ops = <<>>
    /\ operations = <<>>
    /\ pc = "check"
    /\ idx = 0
    /\ success_count = 0
    /\ error_count = 0
    /\ skip_answer = "not_asked"
    /\ now = 0
    /\ faults = 0
    /\ hist = <<>>

CheckArchive ==
    /\ pc = "check"
    /\ chk_return = None
    /\ \E outcome \in TesterOutcomes(chk_call.file_path) :
          LET r == check_archive(chk_call.file_path, chk_call.timeout, outcome)
          IN  /\ chk_return' = [value |-> r.returned]
              /\ launches' = launches (+) SetToBag({r.launch})
              /\ log' = log (+) r.logged
    /\ UNCHANGED <<fs, cfg, cmpVars, runVars, scanVars, tester_present, chk_call, flt_call,
                   histVars, batchVars>>

NextCheck == CheckArchive

SpecCheck == InitCheck /\ [][NextCheck]_vars

----------------------------------------------------------------------------
(* Properties of check_archive.  A launch reaches the tester unless the    *)
(* executable was not found.                                               *)

ReachedTester(l) == l.outcome # "FileNotFoundError"

(* the timeout the launch l started from: the argument, else the configured one *)
BaseOf(l) ==
    IF chk_call = None \/ chk_call.timeout = None
    THEN cfg.archive_check_timeout
    ELSE chk_call.timeout.value

Clamped(lo, hi, x) == IF x < lo THEN lo ELSE IF x > hi THEN hi ELSE x

SizedTimeout(l) ==
    Clamped(cfg.archive_check_min_timeout, cfg.archive_check_max_timeout,
            BaseOf(l) + (fs[l.file_path].size \div 100) * cfg.archive_check_timeout_per_100mb)

InTimeoutRange(l) ==
    /\ cfg.archive_check_min_timeout <= l.timeout
    /\ l.timeout <= cfg.archive_check_max_timeout

(* C15 as stated: every launch that reaches the tester gets the clamped    *)
(* timeout max(min, min(max, base + floor(size / 100MB) * increment)), so  *)
(* a timeout within [min, max] also when the file size cannot be read or   *)
(* the timeout argument exceeds max; 250 MB with base 300 gives 420.       *)
C15_TimeoutClamped ==
    \A l \in BagToSet(launches) :
            ReachedTester(l) =>
              /\ InTimeoutRange(l)
              /\ l.file_path \in DOMAIN fs => l.timeout = SizedTimeout(l)

(* C15 amended: when the file size can be read the launch gets the clamped *)
(* timeout, which lies within [min, max] whatever the base (250 MB with    *)
(* base 300 gives 420); when it cannot be read the launch gets the base    *)
(* timeout itself (argument or configured), not clamped.                   *)
C15_TimeoutClampedWhenSized ==
    \A l \in BagToSet(launches) :
            ReachedTester(l) =>
              IF l.file_path \in DOMAIN fs
              THEN /\ l.timeout = SizedTimeout(l)
                   /\ InTimeoutRange(l)
                   /\ (fs[l.file_path].size = 250 /\ BaseOf(l) = 300) => l.timeout = 420
              ELSE l.timeout = BaseOf(l)

C15_Witness ==
    \E l \in BagToSet(launches) :
        /\ ReachedTester(l)
        /\ l.file_path \in DOMAIN fs
        /\ fs[l.file_path].size = 250
        /\ BaseOf(l) = 300
        /\ l.timeout = 420

----------------------------------------------------------------------------
(* SpecBatch: the check batch of process_corrupted_archives, from the      *)
(* submission of the tasks (line 430) to the final report.  The worker     *)
(* threads run process_single_file concurrently with the collection loop   *)
(* of the main thread; a future is [state |-> "pending"], "cancelled",     *)
(* "returned" (with the result) or "raised" (with the exception).          *)

BatchNames == <<"a", "b", "c", "d">>

BatchFile(i) == MkPath(Dir("chk", ""), BatchNames[i], ".zip")

Tombstone(path) == [path EXCEPT !.sfx = ".tdel"]

Pending(i) == futures[i].state = "pending"

(* a mutant of Done for which a cancelled future never gets done *)
Done_FinishedOnly(i) == futures[i].state \in {"returned", "raised"}

(* future.done() *)
Done(i) == ~Pending(i)

(* the futures as_completed can yield next: finished and not yet yielded *)
Finished(i) == futures[i].state \in {"returned", "raised"}

(* A line of the journal is a record with a "path", written whole with its *)
(* newline, or [torn |-> e], the text a write of e left behind when it was *)
(* interrupted, with no newline, or [torn |-> e, then |-> r], that text    *)
(* with the line of a later record r written straight after it.            *)
IsRecord(line) == "path" \in DOMAIN line

Unterminated(line) == "torn" \in DOMAIN line /\ "then" \notin DOMAIN line

EndsTorn(lines) == lines # << >> /\ Unterminated(lines[Len(lines)])

(* lines 184-193: the entry as json.dumps writes it, its timestamp set *)
Stamped(new_entry) ==
    [k \in DOMAIN new_entry \cup {"timestamp"} |->
        IF k = "timestamp" THEN now ELSE new_entry[k]]

(* a mutant of save_check_history that opens the journal with mode 'w' *)
save_check_history_Rewriting(new_entry) == << Stamped(new_entry) >>

(* save_check_history: the file is opened with mode 'a' and the entry is   *)
(* written as one line at its end, wherever the earlier text ended         *)
save_check_history(new_entry) ==
    IF EndsTorn(journal)
    THEN [journal EXCEPT ![Len(journal)] = [torn |-> @.torn, then |-> Stamped(new_entry)]]
    ELSE Append(journal, Stamped(new_entry))

(* a call of save_check_history; an exception of open or write is logged   *)
(* and swallowed (lines 194-195)                                           *)
SaveCheckHistory(new_entry) ==
    \/ /\ journal' = save_check_history(new_entry)
       /\ UNCHANGED <<faults, log>>
    \/ /\ BatchRaises
       /\ log' = log (+) SetToBag({[event |-> "save_failed", file_path |-> new_entry.path]})
       /\ UNCHANGED journal

(* lines 493-499 and 517-523: remove an existing new_path, then rename      *)
(* file_path to it; any exception (a name not bound, a missing file_path,  *)
(* a refused rename) is logged and swallowed, after the removal if it was  *)
(* the rename that raised                                                  *)
MarkTdel ==
    IF l_new_path' = Unbound \/ l_file_path' = Unbound
    THEN /\ log' = log (+) SetToBag({[event |-> "rename_failed", file_path |-> l_file_path']})
         /\ UNCHANGED <<fs, faults>>
    ELSE LET removed == IF l_new_path' \in DOMAIN fs THEN RemoveFile(fs, l_new_path') ELSE fs
         IN  IF l_file_path' \notin DOMAIN removed
             THEN /\ log' = log (+) SetToBag({[event |-> "rename_failed",
                                               file_path |-> l_file_path']})
                  /\ fs' = removed
                  /\ UNCHANGED faults
             ELSE \/ /\ fs' = MoveFile(removed, l_file_path', l_new_path')
                     /\ UNCHANGED <<log, faults>>
                  \/ /\ BatchRaises
                     /\ log' = log (+) SetToBag({[event |-> "rename_failed",
                                                  file_path |-> l_file_path']})
                     /\ fs' = removed

(* a mutant of JournalAfterTask: the worker saves its own result *)
JournalAfterTask_Saved(result) == save_check_history(result)

(* lines 404-421: process_single_file calls check_archive and returns the  *)
(* result; it leaves the journal to its caller                             *)
JournalAfterTask(result) == journal

(* a worker thread runs process_single_file(file_path) to its end; the     *)
(* main thread reads the futures at the head of its loop, in the timeout   *)
(* handler and at the shutdown, so a task ending elsewhere is one ending   *)
(* at the next of these points                                             *)
RunTask(i) ==
    /\ pc \in {"wait", "cancel", "shutdown"}
    /\ Pending(i)
    /\ \/ \E outcome \in TesterOutcomes(files_to_process[i]) :
             LET r == check_archive(files_to_process[i], None, outcome)
             IN  /\ futures' = [futures EXCEPT ![i] =
                        [ state |-> "returned",
                          result |-> [ path |-> files_to_process[i], valid |-> r.returned,
                                       timestamp |-> None, error |-> None ] ]]
                 /\ journal' = JournalAfterTask([path |-> files_to_process[i],
                                                 valid |-> r.returned])
                 /\ launches' = launches (+) SetToBag({r.launch})
                 /\ log' = log (+) r.logged
                 /\ UNCHANGED faults
       \/ (* an exception that escapes process_single_file *)
          /\ BatchRaises
          /\ \E e \in {"TimeoutError", "Exception"} :
                futures' = [futures EXCEPT ![i] = [state |-> "raised", exception |-> e]]
          /\ UNCHANGED <<launches, log, journal>>
    /\ UNCHANGED <<fs, cfg, cmpVars, scanVars, runRest, pc, tester_present, callVars, histVars,
                   files_to_process, collected, future, l_file_path, l_new_path,
                   valid_count, invalid_count, processed>>

(* lines 433-479: as_completed yields a finished future; future.result     *)
(* either raises, and the result is counted before it is saved, or         *)
(* returns, and the result is saved first                                  *)
Collect ==
    /\ pc = "wait"
    /\ \E i \in (1..NFiles) \ collected :
          /\ Finished(i)
          /\ collected' = collected \cup {i}
          /\ future' = i
          /\ l_file_path' = files_to_process[i]
          /\ IF futures[i].state = "raised"
             THEN /\ invalid_count' = invalid_count + 1
                  /\ pc' = "save_error"
                  /\ UNCHANGED <<journal, faults, log>>
             ELSE /\ SaveCheckHistory([ path |-> files_to_process[i],
                                        valid |-> futures[i].result.valid ])
                  /\ pc' = "count"
                  /\ UNCHANGED invalid_count
    /\ UNCHANGED <<fs, cfg, cmpVars, scanVars, runRest, tester_present, callVars, histVars, launches,
                   files_to_process, futures, l_new_path, valid_count, processed>>

(* lines 442-451 and 456-465 *)
SaveError ==
    /\ pc = "save_error"
    /\ SaveCheckHistory([ path |-> l_file_path, valid |-> FALSE,
                          error |-> IF futures[future].exception = "TimeoutError"
                                    THEN "Timeout" ELSE "Exception" ])
    /\ processed' = processed + 1
    /\ pc' = "wait"
    /\ UNCHANGED <<fs, cfg, cmpVars, scanVars, runRest, tester_present, callVars, histVars, launches,
                   files_to_process, futures, collected, future, l_file_path, l_new_path,
                   valid_count, invalid_count>>

(* lines 481-489 *)
Count ==
    /\ pc = "count"
    /\ IF futures[future].result.valid
       THEN /\ valid_count' = valid_count + 1
            /\ pc' = "wait"
            /\ UNCHANGED <<invalid_count, l_new_path>>
       ELSE /\ invalid_count' = invalid_count + 1
            /\ l_new_path' = Tombstone(l_file_path)
            /\ pc' = "confirm_tdel"
            /\ UNCHANGED valid_count
    /\ UNCHANGED <<fs, cfg, cmpVars, scanVars, runRest, faults, tester_present, callVars, histVars,
                   launches, log, files_to_process, futures, collected, future,
                   l_file_path, journal, processed>>

(* lines 491-501: the answer to "mark the file as .tdel?" *)
ConfirmTdel ==
    /\ pc = "confirm_tdel"
    /\ UNCHANGED <<l_file_path, l_new_path>>
    /\ \/ /\ MarkTdel
          /\ processed' = processed + 1
       \/ UNCHANGED <<fs, faults, log, processed>>
    /\ pc' = "wait"
    /\ UNCHANGED <<cfg, cmpVars, scanVars, runRest, tester_present, callVars, histVars, launches,
                   files_to_process, futures, collected, future, journal,
                   valid_count, invalid_count>>

(* as_completed has yielded every future: the loop ends *)
LoopEnd ==
    /\ pc = "wait"
    /\ collected = 1..NFiles
    /\ pc' = "shutdown"
    /\ UNCHANGED <<fs, cfg, cmpVars, scanVars, runRest, faults, chkVars>>

(* line 503: as_completed raises TimeoutError, single_file_timeout seconds *)
(* after the loop started, while it still has a future to yield            *)
OverallTimeout ==
    /\ pc = "wait"
    /\ collected # 1..NFiles
    /\ pc' = "cancel"
    /\ future' = 1
    /\ UNCHANGED <<fs, cfg, cmpVars, scanVars, runRest, faults, tester_present, callVars, histVars,
                   launches, log, files_to_process, futures, collected, l_file_path,
                   l_new_path, journal, valid_count, invalid_count, processed>>

(* a mutant of Unfinished that makes the handler count every task *)
Unfinished_Any(i) == TRUE

(* line 507: not future.done() *)
Unfinished(i) == ~Done(i)

(* lines 506-523: one round of the handler's loop over all the futures;    *)
(* future.cancel() succeeds only for a task no worker has started          *)
CancelStep ==
    /\ pc = "cancel"
    /\ future <= NFiles
    /\ IF Unfinished(future)
       THEN /\ \/ futures' = [futures EXCEPT ![future] = [state |-> "cancelled"]]
               \/ UNCHANGED futures
            /\ l_file_path' = files_to_process[future]
            /\ invalid_count' = invalid_count + 1
       ELSE UNCHANGED <<futures, l_file_path, invalid_count>>
    /\ UNCHANGED l_new_path
    /\ \/ /\ MarkTdel
          /\ processed' = processed + (IF Unfinished(future) THEN 1 ELSE 0)
       \/ /\ UNCHANGED <<fs, faults, log>>
          /\ processed' = processed + (IF Unfinished(future) THEN 1 ELSE 0)
    /\ future' = future + 1
    /\ UNCHANGED <<cfg, cmpVars, scanVars, runRest, pc, tester_present, callVars, histVars, launches,
                   files_to_process, collected, journal, valid_count>>

(* lines 525-526: the handler's loop is over *)
CancelEnd ==
    /\ pc = "cancel"
    /\ future > NFiles
    /\ processed' = processed + 1
    /\ pc' = "shutdown"
    /\ UNCHANGED <<fs, cfg, cmpVars, scanVars, runRest, faults, tester_present, callVars, histVars,
                   launches, log, files_to_process, futures, collected, future,
                   l_file_path, l_new_path, journal, valid_count, invalid_count>>

(* lines 528-535: the executor has shut down (every started task has       *)
(* ended), the final report is printed                                     *)
ReportBatch ==
    /\ pc = "shutdown"
    /\ \A i \in 1..NFiles : Done(i)
    /\ pc' = "done"
    /\ UNCHANGED <<fs, cfg, cmpVars, scanVars, runRest, faults, chkVars>>

InitBatch ==
    /\ cfg = DefaultConfig
    /\ fs = [p \in { BatchFile(i) : i \in 1..NFiles } |->
                LET i == CHOOSE k \in 1..NFiles : p = BatchFile(k)
                IN  [id |-> BatchNames[i], size |-> 250, zip |-> i % 2 = 1, entries |-> <<>>]]
    /\ fs0 = fs
    /\ tester_present \in BOOLEAN
    /\ chk_call = None
    /\ chk_return = None
    /\ flt_call = None
    /\ skip_checked = FALSE
    /\ check_history = << >>
    /\ launches = EmptyBag
    /\ log = EmptyBag
    /\ files_to_process = [i \in 1..NFiles |-> BatchFile(i)]
    /\ futures = [i \in 1..NFiles |-> [state |-> "pending"]]
    /\ collected = {}
    /\ future = Unbound
    /\ l_file_path = Unbound
    /\ l_new_path = Unbound
    /\ journal = <<>>
    /\ valid_count = 0
    /\ invalid_count = 0
    /\ processed = 0
    /\ tree = None
    /\ scan_result = None
    /\ target_structure = None
    /\ selected_source = None
    /\ removed_count = None
    /\ removed_dirs = <<>>
    /\ cmp_args = <<None, None>>
    /\ cmp_result = None
    /\ cmp_again = None
    /\ is_move = FALSE
    /\ ops = <<>>
    /\ operations = <<>>
    /\ pc = "wait"
    /\ idx = 0
    /\ success_count = 0
    /\ error_count = 0
    /\ skip_answer = "not_asked"
    /\ now = 0
    /\ faults = 0
    /\ hist = <<>>

NextBatch ==
    \/ \E i \in 1..NFiles : RunTask(i)
    \/ Collect
    \/ SaveError
    \/ Count
    \/ ConfirmTdel
    \/ LoopEnd
    \/ OverallTimeout
    \/ CancelStep
    \/ CancelEnd
    \/ ReportBatch

SpecBatch == InitBatch /\ [][NextBatch]_vars

----------------------------------------------------------------------------
(* Properties of the check batch, checked under SpecBatch *)

LaunchesOf(path) == { l \in BagToSet(launches) : l.file_path = path }

RecordsOf(path) == { k \in 1..Len(journal) : journal[k].path = path }

(* the tester ran on the file and did not say whether it is intact *)
NoVerdict(path) ==
    \E l \in LaunchesOf(path) : l.outcome \notin {"exit_zero", "exit_nonzero"}

MissingToolLine == [event |-> "FileNotFoundError", file_path |-> None]

(* C16: a file whose tester run exceeded the timeout has the result        *)
(* invalid, every journal record of it carries the reason 'Timeout', and   *)
(* the tester was started for it only once.                                *)
C16_TimeoutRecorded ==
    \A i \in 1..NFiles :
        LET path == files_to_process[i]
        IN  (\E l \in LaunchesOf(path) : l.outcome = "TimeoutExpired") =>
              /\ futures[i].state = "returned" => ~futures[i].result.valid
              /\ \A k \in RecordsOf(path) :
                    /\ ~journal[k].valid
                    /\ "error" \in DOMAIN journal[k]
                    /\ journal[k].error = "Timeout"
              /\ \A l \in LaunchesOf(path) : CopiesIn(l, launches) = 1
              /\ Cardinality(LaunchesOf(path)) = 1

(* C17: with the tester executable absent every check returns invalid      *)
(* without raising, and the batch logs the missing-tool error exactly      *)
(* once, not once per checked file.                                        *)
C17_MissingToolReportedOnce ==
    ~tester_present =>
        /\ \A i \in 1..NFiles :
              /\ futures[i].state = "returned" => ~futures[i].result.valid
              /\ LaunchesOf(files_to_process[i]) # {} => futures[i].state = "returned"
        /\ launches # EmptyBag => CopiesIn(MissingToolLine, log) = 1

(* C18: once a check of the batch has found the tester missing, no further *)
(* launch of the tester is attempted: at most one attempt of a batch ever  *)
(* fails for the missing executable.                                       *)
C18_NoLaunchAfterMissing ==
    Cardinality({ l \in BagToSet(launches) : l.outcome = "FileNotFoundError" }) <= 1

(* C19: a check that failed without a verdict of the tester (timeout,      *)
(* missing tool, permission error, other exception) gives the result       *)
(* invalid with a reason, in the result and in the journal record, that    *)
(* is not empty and differs from that of a file the tester found corrupt   *)
(* (which has none).                                                       *)
C19_FailureReasonDistinct ==
    \A i \in 1..NFiles :
        LET path == files_to_process[i]
        IN  (futures[i].state = "returned" /\ NoVerdict(path)) =>
              /\ ~futures[i].result.valid
              /\ futures[i].result.error # None
              /\ \A k \in RecordsOf(path) : "error" \in DOMAIN journal[k]

(* C20: every result is appended to the journal before it is counted as    *)
(* valid or invalid or offered for tombstoning: at every point of the      *)
(* batch there are at least as many journal records as counted results,    *)
(* and a file offered for tombstoning has its record.                      *)
C20_JournalBeforeCount ==
    /\ valid_count + invalid_count <= Len(journal)
    /\ pc = "confirm_tdel" => RecordsOf(l_file_path) # {}

(* ---- the overall timeout of a check batch ---- *)

(* a step of the overall-timeout handler (lines 503-526) *)
HandlerStep == pc = "cancel" \/ pc' = "cancel"

(* the handler has run to its end *)
TimedOut == pc \in {"shutdown", "done"} /\ collected # 1..NFiles

CancelledRecord(k) ==
    /\ ~journal[k].valid
    /\ "error" \in DOMAIN journal[k]
    /\ journal[k].error = "cancelled"

(* C21: after the overall timeout every task the handler cancelled has a   *)
(* journal record with valid false and the reason 'cancelled', and the     *)
(* handler counted it once as invalid.                                     *)
C21_CancelledRecorded ==
    TimedOut =>
        /\ \A i \in 1..NFiles :
              futures[i].state = "cancelled" =>
                  \E k \in RecordsOf(files_to_process[i]) : CancelledRecord(k)
        /\ invalid_count >= Cardinality({ i \in 1..NFiles : futures[i].state = "cancelled" })

(* C22: a step of the overall-timeout handler leaves the journal and the   *)
(* count of valid results as they are, and adds to the count of invalid    *)
(* results only one for a task that had not finished.                      *)
C22_CancellationKeepsCompleted ==
    [][HandlerStep =>
          /\ journal' = journal
          /\ valid_count' = valid_count
          /\ invalid_count' # invalid_count =>
                /\ pc = "cancel"
                /\ future <= NFiles
                /\ Pending(future)
                /\ invalid_count' = invalid_count + 1]_vars

C22_Witness ==
    /\ TimedOut
    /\ journal # << >>
    /\ valid_count > 0
    /\ invalid_count > 0
    /\ \E i \in 1..NFiles : futures[i].state = "cancelled"

(* C23: the files change only when the tombstone prompt of the collection  *)
(* loop is answered for a file whose own check returned invalid, and then  *)
(* only that file and its tombstone change: the overall-timeout handler    *)
(* renames and deletes nothing.                                            *)
C23_RenameOnlyOwnInvalid ==
    [][fs' # fs =>
          /\ pc = "confirm_tdel"
          /\ futures[future].state = "returned"
          /\ ~futures[future].result.valid
          /\ \A q \in (DOMAIN fs \cup DOMAIN fs') \
                        {files_to_process[future], Tombstone(files_to_process[future])} :
                /\ q \in DOMAIN fs
                /\ q \in DOMAIN fs'
                /\ fs'[q] = fs[q]]_vars

-----------------------------------------------------------------------------
(* The check journal between batches and the start of a check batch        *)
(* (src/upscalebus/core/scan.py, load_check_history and save_check_history,*)
(* and process_corrupted_archives up to the submission of the tasks).      *)
(* Earlier runs append records to the journal, one of them may be          *)
(* interrupted in its write, the wall clock they stamp the records with    *)
(* may be set back; then a batch loads the journal, collects the files to  *)
(* check and, when confirmed, submits them.                                *)

MaxLines == 2       \* most lines of the journal

JournalRoot == Dir("chk", "")

(* the checked directory: a.zip, n.txt and d/B.CBZ *)
JournalTree ==
    [ listable |-> TRUE,
      items |-> << File("a", ".zip", 250, TRUE),
                   File("n", ".txt", 1, TRUE),
                   [ kind |-> "dir", name |-> "d", ext |-> "", listable |-> TRUE,
                     items |-> << File("B", ".CBZ", 250, TRUE) >> ] >> ]

JournalPaths ==
    { MkPath(JournalRoot, "a", ".zip"), MkPath(JoinDir(JournalRoot, "d"), "B", ".CBZ") }

(* a mutant of StoreEntry that keeps the first entry of a path *)
StoreEntry_KeepFirst(history, file_path, entry) ==
    IF file_path \in DOMAIN history THEN history
    ELSE [q \in DOMAIN history \cup {file_path} |->
             IF q = file_path THEN [timestamp |-> entry.timestamp, valid |-> entry.valid]
             ELSE history[q]]

(* lines 168-171: history[file_path] = {'timestamp': ..., 'valid': ...} *)
StoreEntry(history, file_path, entry) ==
    [q \in DOMAIN history \cup {file_path} |->
        IF q = file_path THEN [timestamp |-> entry.timestamp, valid |-> entry.valid]
        ELSE history[q]]

(* lines 159-175: the loop over the lines; json.loads raises for a line    *)
(* that is not one whole record, and the line is skipped                   *)
RECURSIVE LoadLines(_, _)
LoadLines(lines, history) ==
    IF lines = << >> THEN history
    ELSE LoadLines(Tail(lines),
                   IF IsRecord(Head(lines))
                   THEN StoreEntry(history, Head(lines).path, Head(lines))
                   ELSE history)

load_check_history(lines) == LoadLines(lines, << >>)

(* line 375: the test of the history *)
AlreadyValid(path) ==
    /\ skip_checked
    /\ path \in DOMAIN check_history
    /\ check_history[path].valid = TRUE

(* line 373: an archive by its lower-cased name, and not a tombstone *)
Checkable(file_info) ==
    /\ Lower(file_info.name[Len(file_info.name)])
          \in get_value("file_operations_archive_extensions")
    /\ file_info.path.sfx # ".tdel"

RECURSIVE Flatten(_)
Flatten(seqs) == IF seqs = << >> THEN << >> ELSE Head(seqs) \o Flatten(Tail(seqs))

(* lines 370-382 *)
RECURSIVE collect_files_from_structure(_)
collect_files_from_structure(structure) ==
    LET own == SelectSeq(structure.files,
                         LAMBDA file_info : Checkable(file_info) /\ ~AlreadyValid(file_info.path))
    IN  [i \in 1..Len(own) |-> own[i].path]
        \o Flatten([i \in 1..Len(structure.subdirs) |->
                       collect_files_from_structure(structure.subdirs[i])])

InitJournal ==
    /\ cfg = DefaultConfig
    /\ fs = [p \in JournalPaths |->
                [id |-> p.base, size |-> 250, zip |-> p.base = "a", entries |-> <<>>]]
    /\ fs0 = fs
    /\ tree = JournalTree
    /\ scan_result = scan_directory_structure(JournalRoot, JournalTree)
    /\ target_structure = None
    /\ selected_source = None
    /\ removed_count = None
    /\ removed_dirs = <<>>
    /\ skip_checked \in BOOLEAN
    /\ check_history = Unbound
    /\ journal = << >>
    /\ tester_present = TRUE
    /\ chk_call = None
    /\ chk_return = None
    /\ flt_call = None
    /\ launches = EmptyBag
    /\ log = EmptyBag
    /\ files_to_process = << >>
    /\ futures = << >>
    /\ collected = {}
    /\ future = Unbound
    /\ l_file_path = Unbound
    /\ l_new_path = Unbound
    /\ valid_count = 0
    /\ invalid_count = 0
    /\ processed = 0
    /\ cmp_args = <<None, None>>
    /\ cmp_result = None
    /\ cmp_again = None
    /\ is_move = FALSE
    /\ ops = <<>>
    /\ operations = <<>>
    /\ pc = "journal"
    /\ idx = 0
    /\ success_count = 0
    /\ error_count = 0
    /\ skip_answer = "not_asked"
    /\ now = 0
    /\ faults = 0
    /\ hist = <<>>

(* what the steps on the journal leave alone *)
journalRest ==
    <<fs, cfg, cmpVars, scanVars, is_move, ops, operations, idx, success_count, error_count,
      skip_answer, faults, fs0, hist, tester_present, callVars, skip_checked, launches, log,
      collected, future, l_file_path, l_new_path, valid_count, invalid_count, processed>>

(* an earlier batch saved the result of a check (process.py:476) *)
SaveEarlier ==
    /\ pc = "journal"
    /\ Len(journal) < MaxLines \/ EndsTorn(journal)
    /\ \E path \in JournalPaths, valid \in BOOLEAN :
          journal' = save_check_history([path |-> path, valid |-> valid])
    /\ UNCHANGED <<journalRest, pc, now, check_history, files_to_process, futures>>

(* scan.py:193: the process died in f.write, part of the line was written *)
InterruptedWrite ==
    /\ pc = "journal"
    /\ Len(journal) < MaxLines
    /\ ~EndsTorn(journal)
    /\ journal' = Append(journal, [torn |-> TRUE])
    /\ UNCHANGED <<journalRest, pc, now, check_history, files_to_process, futures>>

(* scan.py:190: datetime.now() is the local wall clock, which the end of   *)
(* daylight saving time or its owner sets back                             *)
ClockChange ==
    /\ pc = "journal"
    /\ now' \in (0..MaxClock) \ {now}
    /\ UNCHANGED <<journalRest, pc, journal, check_history, files_to_process, futures>>

(* process.py:359 *)
LoadHistory ==
    /\ pc = "journal"
    /\ check_history' = load_check_history(journal)
    /\ pc' = "collect"
    /\ UNCHANGED <<journalRest, now, journal, files_to_process, futures>>

(* process.py:384-390: nothing to check ends the batch *)
CollectFiles ==
    /\ pc = "collect"
    /\ files_to_process' = collect_files_from_structure(scan_result)
    /\ pc' = IF Len(files_to_process') = 0 THEN "done" ELSE "confirm"
    /\ UNCHANGED <<journalRest, now, journal, check_history, futures>>

(* process.py:395-430: the prompt, and the submission of one task per file *)
ConfirmCheck ==
    /\ pc = "confirm"
    /\ \/ /\ futures' = [i \in 1..Len(files_to_process) |-> [state |-> "pending"]]
          /\ pc' = "wait"
       \/ /\ pc' = "done"
          /\ UNCHANGED futures
    /\ UNCHANGED <<journalRest, now, journal, check_history, files_to_process>>

NextJournal ==
    \/ SaveEarlier
    \/ InterruptedWrite
    \/ ClockChange
    \/ LoadHistory
    \/ CollectFiles
    \/ ConfirmCheck

SpecJournal == InitJournal /\ [][NextJournal]_vars

(* ---- claims about the journal and the start of a batch ---- *)

(* load_check_history has returned *)
Loaded == pc # "journal"

(* collect_files_from_structure has returned *)
FilesCollected == pc \in {"confirm", "wait", "done"}

Last(S) == CHOOSE k \in S : \A j \in S : j <= k

(* the lines that are one whole record of the path *)
RecordLines(path) == { k \in 1..Len(journal) : IsRecord(journal[k]) /\ journal[k].path = path }

(* the record a completed call of save_check_history wrote into a line *)
HasAppended(line) == IsRecord(line) \/ "then" \in DOMAIN line

Appended(line) == IF IsRecord(line) THEN line ELSE line.then

(* the lines into which a completed save_check_history wrote a record of the path *)
AppendedFor(path) ==
    { k \in 1..Len(journal) : HasAppended(journal[k]) /\ Appended(journal[k]).path = path }

EntryOf(record) == [timestamp |-> record.timestamp, valid |-> record.valid]

Submitted == { files_to_process[i] : i \in 1..Len(files_to_process) }

(* C24: an archive of the directory is left out of the batch exactly when  *)
(* skip_checked is set and the latest record the engine appended for it    *)
(* says valid; when that leaves out every archive, no task is submitted.   *)
C24_SkippedIffLatestValid ==
    FilesCollected =>
        /\ \A path \in JournalPaths :
              path \notin Submitted <=>
                  /\ skip_checked
                  /\ AppendedFor(path) # {}
                  /\ Appended(journal[Last(AppendedFor(path))]).valid
        /\ Submitted = {} => futures = << >>

(* C25: the loaded history has an entry exactly for the paths with a       *)
(* record, and the entry is that of the last record of the path in the     *)
(* order of the file, whatever the timestamps.                             *)
C25_LastRecordWins ==
    Loaded =>
        /\ DOMAIN check_history = { path \in JournalPaths : RecordLines(path) # {} }
        /\ \A path \in DOMAIN check_history :
              check_history[path] = EntryOf(journal[Last(RecordLines(path))])

C25_Witness ==
    /\ Loaded
    /\ \E path \in JournalPaths :
          /\ Cardinality(RecordLines(path)) >= 2
          /\ \E k \in RecordLines(path) : journal[k].valid # check_history[path].valid
    /\ \E path \in JournalPaths : path \notin DOMAIN check_history

(* C25 as stated: the entry kept for a path is that of its last record,    *)
(* which is also the record with the latest timestamp.                     *)
C25_LatestStampedWins ==
    Loaded =>
        \A path \in JournalPaths :
            RecordLines(path) # {} =>
                /\ path \in DOMAIN check_history
                /\ check_history[path] = EntryOf(journal[Last(RecordLines(path))])
                /\ \A k \in RecordLines(path) :
                      journal[k].timestamp <= check_history[path].timestamp

(* C27: whatever write was interrupted, the loaded history has the entry   *)
(* of the last record appended for each path, whether it was appended      *)
(* before or after the interrupted write.                                  *)
C27_OnlyInterruptedLost ==
    Loaded =>
        \A path \in JournalPaths :
            AppendedFor(path) # {} =>
                /\ path \in DOMAIN check_history
                /\ check_history[path] = EntryOf(Appended(journal[Last(AppendedFor(path))]))

(* ---- claims about the journal during a batch ---- *)

(* the text of journal a is the beginning of the text of journal b *)
ContentPrefix(a, b) ==
    /\ Len(a) <= Len(b)
    /\ \A k \in 1..Len(a) :
          \/ b[k] = a[k]
          \/ /\ k = Len(a)
             /\ Unterminated(a[k])
             /\ "then" \in DOMAIN b[k]

(* C26: every step of a batch, also one that records a task's timeout or   *)
(* exception and one of the overall-timeout handler, leaves the earlier    *)
(* content of the journal as the beginning of the later content.           *)
C26_JournalAppendOnly == [][ContentPrefix(journal, journal')]_vars

C26_Witness ==
    /\ Len(journal) = NFiles
    /\ \E k \in 1..Len(journal) : "error" \in DOMAIN journal[k]
    /\ \E k \in 1..Len(journal) : "error" \notin DOMAIN journal[k]

(* a worker thread finishes its task *)
WorkerStep ==
    \E i \in 1..NFiles : Pending(i) /\ futures'[i].state \in {"returned", "raised"}

(* C28: a step of a worker thread leaves the journal as it is; the journal *)
(* changes only in a step of the collection loop, by one line, and every   *)
(* line of it is one whole record.                                         *)
C28_SingleWriter ==
    /\ [](\A k \in 1..Len(journal) : IsRecord(journal[k]))
    /\ [][/\ WorkerStep => journal' = journal
          /\ journal' # journal =>
                /\ pc \in {"wait", "save_error"}
                /\ pc = "wait" => collected' # collected
                /\ Len(journal') = Len(journal) + 1]_vars

C28_Witness ==
    /\ Len(journal) = 1
    /\ \E i \in (1..NFiles) \ collected : Finished(i)
    /\ pc = "count"

(* what is left of a batch: every step of it makes this smaller *)
StepsLeft ==
    LET unfinished == Cardinality({ i \in 1..NFiles : Pending(i) })
        uncollected == NFiles - Cardinality(collected)
        phase == CASE pc = "done" -> 0
                   [] pc = "shutdown" -> 1
                   [] pc = "cancel" -> 2 + (NFiles + 1 - future)
                   [] pc = "wait" -> NFiles + 3
                   [] pc = "confirm_tdel" -> NFiles + 4
                   [] pc = "save_error" -> NFiles + 4
                   [] pc = "count" -> NFiles + 5
    IN  unfinished + 3 * uncollected + phase

(* C29: a batch that has not reached its final report can take a step,     *)
(* given that a task which has not finished can finish, and every step     *)
(* brings the batch nearer to the report: the batch ends, and ends at      *)
(* the report, also when the overall timeout has fired.                    *)
C29_BatchTerminates ==
    /\ [](pc # "done" => ENABLED NextBatch)
    /\ [][StepsLeft' < StepsLeft]_vars

C29_Witness ==
    /\ pc = "done"
    /\ \E i \in 1..NFiles : futures[i].state = "cancelled"
    /\ \E i \in 1..NFiles : i \in collected

-----------------------------------------------------------------------------
(* The planner (src/upscalebus/core/process.py, prepare_operations) as     *)
(* compare_and_copy_archives calls it on the two scanned directories.      *)

TargetRoot == Dir("tgt", "")

(* lines 147-155: the structure made up for a target that does not exist *)
AbsentTarget ==
    [ path |-> TargetRoot, name |-> TargetRoot.root, subdirs |-> << >>, files |-> << >>,
      archive_count |-> 0, total_size |-> 0 ]

(* a target directory that exists, with a.zip in its sub-directory d *)
TargetTrees ==
    { [listable |-> TRUE,
       items |-> << [ kind |-> "dir", name |-> "d", ext |-> "", listable |-> TRUE,
                      items |-> << File("a", ".zip", 1, TRUE) >> ] >>] }

(* os.path.relpath(os.path.dirname(path), source_base), "." made "";       *)
(* source_base is the root the source was scanned from                     *)
relpath(dir, source_base) == IF dir = source_base THEN "" ELSE dir.rel

(* a mutant of target_dir that puts every file into the target root *)
target_dir_Flat(target_base, rel_path) == target_base

(* line 60: os.path.join(target_base, rel_path) *)
target_dir(target_base, rel_path) ==
    IF rel_path = "" THEN target_base ELSE JoinDir(target_base, rel_path)

(* lines 56-69: the operation of one archive file *)
PlannedOperation(file_info, source_base, target_base, move) ==
    ArchiveOperation(file_info.path,
                     MkPath(target_dir(target_base, relpath(file_info.path.dir, source_base)),
                            file_info.name[1], file_info.name[2]),
                     IF move THEN "move" ELSE "copy")

(* lines 74-77: the scanned target sub-directory of that name, or an empty *)
(* structure made up for it                                                *)
target_subdir(target, subdir) ==
    LET found == { i \in 1..Len(target.subdirs) : target.subdirs[i].name = subdir.name }
    IN  IF found # {}
        THEN target.subdirs[CHOOSE i \in found : \A j \in found : i <= j]
        ELSE [ path |-> JoinDir(target.path, subdir.name), subdirs |-> << >>, files |-> << >> ]

RECURSIVE prepare_operations(_, _, _, _, _)
prepare_operations(source, target, source_base, target_base, move) ==
    LET archives == SelectSeq(source.files, LAMBDA file_info : file_info.is_archive)
    IN  [i \in 1..Len(archives) |->
            PlannedOperation(archives[i], source_base, target_base, move)]
        \o Flatten([i \in 1..Len(source.subdirs) |->
                       prepare_operations(source.subdirs[i],
                                          target_subdir(target, source.subdirs[i]),
                                          source_base, target_base, move)])

InitPlan ==
    /\ cfg = DefaultConfig
    /\ tree \in ScanTrees
    /\ scan_result = scan_directory_structure(ScanRoot, tree)
    /\ target_structure \in
          {AbsentTarget} \cup { scan_directory_structure(TargetRoot, t) : t \in TargetTrees }
    /\ selected_source = scan_result
    /\ removed_count = None
    /\ removed_dirs = <<>>
    /\ is_move \in BOOLEAN
    /\ NoCheck
    /\ fs = [p \in {} |-> None]
    /\ fs0 = fs
    /\ cmp_args = <<None, None>>
    /\ cmp_result = None
    /\ cmp_again = None
    /\ ops = <<>>
    /\ operations = <<>>
    /\ pc = "plan"
    /\ idx = 0
    /\ success_count = 0
    /\ error_count = 0
    /\ skip_answer = "not_asked"
    /\ now = 0
    /\ faults = 0
    /\ hist = <<>>

(* lines 204-210, with the whole source chosen *)
Plan ==
    /\ pc = "plan"
    /\ ops' = prepare_operations(scan_result, target_structure,
                                 scan_result.path, target_structure.path, is_move)
    /\ pc' = "planned"
    /\ UNCHANGED <<fs, cfg, cmpVars, scanVars, chkVars, is_move, operations, idx, success_count,
                   error_count, skip_answer, now, faults, fs0, hist>>

NextPlan == Plan

SpecPlan == InitPlan /\ [][NextPlan]_vars

(* the archive files of the scanned source *)
SourceArchives ==
    UNION { { n.files[i].path : i \in ListedArchives(n) } : n \in Nodes(scan_result) }

(* the files of the scanned source that are no archives *)
SourceOthers ==
    UNION { { n.files[i].path : i \in (1..Len(n.files)) \ ListedArchives(n) } :
              n \in Nodes(scan_result) }

(* the path under the target root with the relative path of a source path *)
UnderTarget(path) == [path EXCEPT !.dir = Dir(TargetRoot.root, path.dir.rel)]

(* C30: the plan has one operation for each archive file of the scanned    *)
(* source and none for another file; the target of each is the target root *)
(* joined with the relative path of its source, whether or not the target  *)
(* has that sub-directory; two operations never have the same target; the  *)
(* kind is move when is_move is set and copy otherwise.                    *)
C30_OneOperationPerArchive ==
    pc = "planned" =>
        /\ Len(ops) = Cardinality(SourceArchives)
        /\ { ops[i].source_path : i \in 1..Len(ops) } = SourceArchives
        /\ \A i \in 1..Len(ops) :
              /\ ops[i].source_path \notin SourceOthers
              /\ ops[i].target_path = UnderTarget(ops[i].source_path)
              /\ ops[i].operation_type = IF is_move THEN "move" ELSE "copy"
        /\ \A i, j \in 1..Len(ops) : i # j => ops[i].target_path # ops[j].target_path

C30_Witness ==
    /\ pc = "planned"
    /\ target_structure.subdirs = << >>
    /\ \E i, j \in 1..Len(ops) :
          /\ ops[i].source_path.dir.rel = ""
          /\ ops[j].source_path.dir.rel # ""
          /\ ops[i].source_path.base = ops[j].source_path.base
    /\ SourceOthers # {}

-----------------------------------------------------------------------------
(* The filter (src/upscalebus/core/process.py, filter_operations) called   *)
(* on a plan of which some operations have been analysed and some not.     *)

(* line 109: op.analyze(); the class ArchiveOperation (scan.py:197-211)    *)
(* defines __init__ only, so the call raises AttributeError                *)
analyze(op) == [raised |-> "AttributeError"]

(* lines 114-121: the two tests of the second loop *)
KeepsOperation(op, only_safe, skip_existing) ==
    /\ ~(only_safe /\ op.is_safe # "True")
    /\ ~(skip_existing /\ exists(op.target_path))

(* lines 92-123; the value is [returned |-> the indices of the operations  *)
(* kept], or what the first loop raised                                    *)
filter_operations(operation_list, only_safe, skip_existing) ==
    LET unknown == { i \in 1..Len(operation_list) : operation_list[i].is_safe = "None" }
    IN  IF unknown # {}
        THEN analyze(operation_list[CHOOSE i \in unknown : \A j \in unknown : i <= j])
        ELSE [returned |->
                SelectSeq([i \in 1..Len(operation_list) |-> i],
                          LAMBDA i : KeepsOperation(operation_list[i], only_safe,
                                                    skip_existing))]

InitFilter ==
    /\ cfg = DefaultConfig
    /\ \E c \in [1..NOps -> UNION { PairChoices(i) : i \in 1..NOps }] :
          /\ \A i \in 1..NOps : c[i] \in PairChoices(i)
          /\ fs = RunFileSystem([i \in 1..NOps |-> c[i][1]], [i \in 1..NOps |-> c[i][2]])
    /\ fs0 = fs
    /\ is_move \in BOOLEAN
    /\ \E analysed \in SUBSET (1..NOps) :
          ops = [i \in 1..NOps |->
                   LET op == ArchiveOperation(SourcePath(i), TargetPath(i),
                                              IF is_move THEN "move" ELSE "copy")
                   IN  IF i \in analysed THEN Analyzed(op) ELSE op]
    /\ operations = None
    /\ pc = "filter"
    /\ idx = 1
    /\ success_count = 0
    /\ error_count = 0
    /\ skip_answer = "not_asked"
    /\ now = 0
    /\ faults = 0
    /\ hist = <<>>
    /\ cmp_args = <<None, None>>
    /\ cmp_result = None
    /\ cmp_again = None
    /\ tree = None
    /\ scan_result = None
    /\ target_structure = None
    /\ selected_source = None
    /\ removed_count = None
    /\ removed_dirs = <<>>
    /\ tester_present = TRUE
    /\ chk_call = None
    /\ chk_return = None
    /\ flt_call \in [only_safe : BOOLEAN, skip_existing : BOOLEAN]
    /\ skip_checked = FALSE
    /\ check_history = << >>
    /\ launches = EmptyBag
    /\ log = EmptyBag
    /\ files_to_process = <<>>
    /\ futures = <<>>
    /\ collected = {}
    /\ future = Unbound
    /\ l_file_path = Unbound
    /\ l_new_path = Unbound
    /\ journal = <<>>
    /\ valid_count = 0
    /\ invalid_count = 0
    /\ processed = 0

Filter ==
    /\ pc = "filter"
    /\ operations' = filter_operations(ops, flt_call.only_safe, flt_call.skip_existing)
    /\ pc' = "filtered"
    /\ UNCHANGED <<fs, cfg, cmpVars, scanVars, chkVars, is_move, ops, idx, success_count,
                   error_count, skip_answer, now, faults, fs0, hist>>

NextFilter == Filter

SpecFilter == InitFilter /\ [][NextFilter]_vars

(* the verdict of an operation, found by the comparator when still unknown *)
Verdict(op) == IF op.is_safe = "None" THEN Analyzed(op).is_safe ELSE op.is_safe

(* C31: the filter returns, in plan order, the operations that are safe    *)
(* when only_safe is set and have no target when skip_existing is set; an  *)
(* operation with unknown verdict gets its verdict from the comparator and *)
(* does not make the call fail.                                            *)
C31_FilterKeepsExactly ==
    pc = "filtered" =>
        /\ "raised" \notin DOMAIN operations
        /\ operations.returned =
              SelectSeq([i \in 1..Len(ops) |-> i],
                        LAMBDA i : /\ flt_call.only_safe => Verdict(ops[i]) = "True"
                                   /\ flt_call.skip_existing => ~exists(ops[i].target_path))

(***************************************************************************)
(* The empty-directory pass after a move: remove_empty_directories         *)
(* (operation.py 24-45) and its call in compare_and_copy_archives          *)
(* (process.py 309-313).  `tree` is the source directory on disk when the  *)
(* pass starts; a directory item carries `removable`, whether os.rmdir of  *)
(* it succeeds once it is empty.                                           *)
(***************************************************************************)
CleanDir(name, listable, removable, items) ==
    [kind |-> "dir", name |-> name, ext |-> "", listable |-> listable,
     removable |-> removable, items |-> items]

InnerDirs ==
    { CleanDir("e", l, r, items) :
        l \in BOOLEAN, r \in BOOLEAN, items \in {<<>>, <<File("c", ".zip", 1, TRUE)>>} }

MidListings ==
    {<<>>, <<File("b", ".txt", 1, TRUE)>>}
    \cup { <<e>> : e \in InnerDirs }
    \cup { <<File("b", ".txt", 1, TRUE), e>> : e \in InnerDirs }

MidDirs == { CleanDir("d", l, r, items) : l \in BOOLEAN, r \in BOOLEAN, items \in MidListings }

SideDirs ==
    { CleanDir("g", TRUE, r, items) :
        r \in BOOLEAN, items \in {<<>>, <<File("h", ".zip", 1, TRUE)>>} }

Optional(S) == {<<>>} \cup { <<x>> : x \in S }

CleanTrees ==
    { [listable |-> TRUE, items |-> a \o g \o d] :
        a \in Optional({File("a", ".zip", 1, TRUE)}),
        g \in Optional(SideDirs),
        d \in Optional(MidDirs) }

(* line 36: os.listdir(dir_path) is read when the parent is visited, after *)
(* the walk has finished with the directory itself                         *)
ListedWhenVisited_BeforeWalk(before, after) == before.items

ListedWhenVisited(before, after) == after.items

RECURSIVE walk_bottom_up(_, _)
(* lines 32-43: os.walk(directory, topdown=False) yields a directory after *)
(* all its subdirectories; a directory os.walk cannot list yields nothing  *)
walk_bottom_up(root, d) ==
    IF ~d.listable
    THEN [node |-> d, removed |-> <<>>]
    ELSE
    LET items == d.items
        walked == [i \in 1..Len(items) |->
                      IF items[i].kind = "dir"
                      THEN walk_bottom_up(JoinDir(root, items[i].name), items[i])
                      ELSE [node |-> items[i], removed |-> <<>>]]
        (* lines 36-38: if not os.listdir(dir_path): os.rmdir(dir_path) *)
        rmdir(i) == /\ items[i].kind = "dir"
                    /\ items[i].listable
                    /\ ListedWhenVisited(items[i], walked[i].node) = <<>>
                    /\ items[i].removable
        below == Flatten([i \in 1..Len(items) |-> walked[i].removed])
        here == SelectSeq([i \in 1..Len(items) |-> i], rmdir)
    IN  [node |-> [d EXCEPT !.items =
                      LET kept == SelectSeq([i \in 1..Len(items) |-> i], LAMBDA i : ~rmdir(i))
                      IN  [k \in 1..Len(kept) |-> walked[kept[k]].node]],
         removed |-> below \o [k \in 1..Len(here) |-> JoinDir(root, items[here[k]].name)]]

remove_empty_directories(directory, d) ==
    LET walked == walk_bottom_up(directory, d)
    IN  [tree |-> walked.node, removed |-> walked.removed,
         removed_count |-> Len(walked.removed)]

InitCleanup ==
    /\ cfg \in { [DefaultConfig EXCEPT !.processing_auto_remove_empty_dirs = b] : b \in BOOLEAN }
    /\ tree \in CleanTrees
    /\ scan_result = scan_directory_structure(ScanRoot, tree)
    /\ selected_source \in
          {scan_result} \cup { scan_result.subdirs[i] : i \in 1..Len(scan_result.subdirs) }
    /\ target_structure = None
    /\ removed_count = None
    /\ removed_dirs = <<>>
    /\ is_move \in BOOLEAN
    /\ NoCheck
    /\ fs = [p \in {} |-> None]
    /\ fs0 = fs
    /\ cmp_args = <<None, None>>
    /\ cmp_result = None
    /\ cmp_again = None
    /\ ops = <<>>
    /\ operations = <<>>
    /\ pc = "cleanup"
    /\ idx = 0
    /\ success_count = 0
    /\ error_count = 0
    /\ skip_answer = "not_asked"
    /\ now = 0
    /\ faults = 0
    /\ hist = <<>>

(* process.py 309-313 *)
Cleanup ==
    /\ pc = "cleanup"
    /\ IF /\ is_move
          /\ selected_source = scan_result
          /\ get_value("processing_auto_remove_empty_dirs")
       THEN LET result == remove_empty_directories(ScanRoot, tree)
            IN  /\ tree' = result.tree
                /\ removed_dirs' = result.removed
                /\ removed_count' = result.removed_count
       ELSE UNCHANGED <<tree, removed_dirs, removed_count>>
    /\ pc' = "report"
    /\ UNCHANGED <<fs, cfg, cmpVars, chkVars, scan_result, target_structure, selected_source,
                   is_move, ops, operations, idx, success_count, error_count, skip_answer,
                   now, faults, fs0, hist>>

NextCleanup == Cleanup

SpecCleanup == InitCleanup /\ [][NextCleanup]_vars

RECURSIVE DirsIn(_, _, _)
(* every directory below `root` on disk, with whether the walk can reach it *)
DirsIn(root, d, reached) ==
    UNION { {[path |-> JoinDir(root, d.items[i].name), node |-> d.items[i],
              reached |-> reached /\ d.listable]}
            \cup DirsIn(JoinDir(root, d.items[i].name), d.items[i], reached /\ d.listable) :
            i \in { j \in 1..Len(d.items) : d.items[j].kind = "dir" } }

RECURSIVE FilesIn(_, _)
FilesIn(root, d) ==
    { <<root, d.items[i].name, d.items[i].ext>> :
        i \in { j \in 1..Len(d.items) : d.items[j].kind = "file" } }
    \cup UNION { FilesIn(JoinDir(root, d.items[i].name), d.items[i]) :
                 i \in { j \in 1..Len(d.items) : d.items[j].kind = "dir" } }

RECURSIVE Vanishes(_)
(* a directory that holds no file and nothing that stays, and that can be deleted *)
Vanishes(node) ==
    /\ node.listable
    /\ node.removable
    /\ \A i \in 1..Len(node.items) : node.items[i].kind = "dir" /\ Vanishes(node.items[i])

CleanDirNames == {"d", "e", "g"}

Under(child, parent) ==
    \/ \E n \in CleanDirNames : JoinDir(parent, n) = child
    \/ \E n, m \in CleanDirNames : JoinDir(JoinDir(parent, n), m) = child

CleanupEnabled ==
    is_move /\ selected_source = scan_result /\ cfg.processing_auto_remove_empty_dirs

(* C32: the empty-directory pass runs only after a move of the whole source  *)
(* root with the setting on; it deletes no file, never the source root and   *)
(* only directories under which nothing is left; children go before their    *)
(* parents, so every reachable directory holding nothing that stays is       *)
(* deleted, and a directory whose deletion fails is passed over while the    *)
(* others are still deleted.                                                 *)
C32_CleanupRemovesOnlyEmpty ==
    [][pc = "cleanup" =>
        LET before == DirsIn(ScanRoot, tree, TRUE)
            after == { x.path : x \in DirsIn(ScanRoot, tree', TRUE) }
            gone == { x \in before : x.path \notin after }
            calls == { removed_dirs'[i] : i \in 1..Len(removed_dirs') }
        IN  /\ ~CleanupEnabled => tree' = tree /\ removed_dirs' = <<>>
            /\ FilesIn(ScanRoot, tree') = FilesIn(ScanRoot, tree)
            /\ after \subseteq { x.path : x \in before }
            /\ calls = { x.path : x \in gone }
            /\ ScanRoot \notin calls
            /\ CleanupEnabled => removed_count' = Cardinality(gone)
            /\ \A x \in gone :
                  /\ FilesIn(x.path, x.node) = {}
                  /\ \A y \in DirsIn(x.path, x.node, TRUE) : y.path \in calls
            /\ \A i, j \in 1..Len(removed_dirs') :
                  i < j => ~Under(removed_dirs'[j], removed_dirs'[i])
            /\ CleanupEnabled =>
                  \A x \in before : x.reached /\ Vanishes(x.node) => x \in gone
    ]_vars

(* a nested chain d/e was deleted, child first, after the deletion of g failed *)
C32_Witness ==
    /\ pc = "report"
    /\ removed_dirs = <<JoinDir(JoinDir(ScanRoot, "d"), "e"), JoinDir(ScanRoot, "d")>>
    /\ removed_count = 2
    /\ tree.items = <<CleanDir("g", TRUE, FALSE, <<>>)>>

(***************************************************************************)
(* The tombstone prompt of the collection loop (process.py 481-501) in a   *)
(* batch that starts with a tombstone of an earlier batch lying next to   *)
(* its first file and none next to the others.                            *)
(***************************************************************************)
BatchFiles ==
    [p \in { BatchFile(i) : i \in 1..NFiles } |->
                LET i == CHOOSE k \in 1..NFiles : p = BatchFile(k)
                IN  [id |-> BatchNames[i], size |-> 250, zip |-> i % 2 = 1, entries |-> <<>>]]

OldTombstone == [id |-> "old", size |-> 250, zip |-> FALSE, entries |-> <<>>]

InitTdel ==
    /\ cfg = DefaultConfig
    /\ fs = [p \in DOMAIN BatchFiles \cup {Tombstone(BatchFile(1))} |->
                IF p \in DOMAIN BatchFiles THEN BatchFiles[p] ELSE OldTombstone]
    /\ fs0 = fs
    /\ tester_present \in BOOLEAN
    /\ chk_call = None
    /\ chk_return = None
    /\ flt_call = None
    /\ skip_checked = FALSE
    /\ check_history = << >>
    /\ launches = EmptyBag
    /\ log = EmptyBag
    /\ files_to_process = [i \in 1..NFiles |-> BatchFile(i)]
    /\ futures = [i \in 1..NFiles |-> [state |-> "pending"]]
    /\ collected = {}
    /\ future = Unbound
    /\ l_file_path = Unbound
    /\ l_new_path = Unbound
    /\ journal = <<>>
    /\ valid_count = 0
    /\ invalid_count = 0
    /\ processed = 0
    /\ tree = None
    /\ scan_result = None
    /\ target_structure = None
    /\ selected_source = None
    /\ removed_count = None
    /\ removed_dirs = <<>>
    /\ cmp_args = <<None, None>>
    /\ cmp_result = None
    /\ cmp_again = None
    /\ is_move = FALSE
    /\ ops = <<>>
    /\ operations = <<>>
    /\ pc = "wait"
    /\ idx = 0
    /\ success_count = 0
    /\ error_count = 0
    /\ skip_answer = "not_asked"
    /\ now = 0
    /\ faults = 0
    /\ hist = <<>>

SpecTdel == InitTdel /\ [][NextBatch]_vars

(* the prompt was answered yes and os.rename did not raise *)
Tombstoned ==
    /\ processed' = processed + 1
    /\ log' = log

(* C33: at the tombstone prompt for an invalid archive P, a tombstoning that *)
(* goes through leaves P absent and P.tdel holding the former content of P,  *)
(* whatever tombstone was there before, and touches no other file; every     *)
(* answer and every failure leaves the content of P at P or at P.tdel; and   *)
(* renaming P.tdel back to P gives the file system before the tombstoning    *)
(* when no tombstone was there before.                                       *)
C33_TombstoneRenamesInPlace ==
    [][pc = "confirm_tdel" =>
        LET P == l_file_path
            T == Tombstone(P)
        IN  /\ l_new_path = T
            /\ P \in DOMAIN fs
            /\ Tombstoned =>
                  /\ P \notin DOMAIN fs'
                  /\ T \in DOMAIN fs'
                  /\ fs'[T] = fs[P]
                  /\ \A q \in (DOMAIN fs \cup DOMAIN fs') \ {P, T} :
                        q \in DOMAIN fs /\ q \in DOMAIN fs' /\ fs'[q] = fs[q]
                  /\ T \notin DOMAIN fs => MoveFile(fs', T, P) = fs
            /\ ~Tombstoned => P \in DOMAIN fs' /\ fs'[P] = fs[P]
    ]_vars

(* the first file was tombstoned over the tombstone an earlier batch had left *)
C33_Witness ==
    /\ pc = "wait"
    /\ BatchFile(1) \notin DOMAIN fs
    /\ fs0[Tombstone(BatchFile(1))] = OldTombstone
    /\ fs[Tombstone(BatchFile(1))] = fs0[BatchFile(1)]
    /\ BatchFile(2) \in DOMAIN fs

(***************************************************************************)
(* The life cycle of an ArchiveOperation in compare_and_copy_archives      *)
(* (scan.py 197-211, process.py 229-305).                                  *)
(***************************************************************************)
Executing == pc \in {"backup", "makedirs", "transfer", "except"}

CountedValid(i) == futures[i].state = "returned" /\ futures[i].result.valid

(* C35: when the batch is over and its overall timeout did not fire, the   *)
(* journal holds exactly one record of this batch for every submitted file *)
(* and the valid flag of the record is the result counted for the file.    *)
C35_OneRecordPerFile ==
    (pc = "done" /\ ~TimedOut) =>
        \A i \in 1..NFiles :
            LET records == { k \in 1..Len(journal) : journal[k].path = files_to_process[i] }
            IN  /\ Cardinality(records) = 1
                /\ \A k \in records : journal[k].valid = CountedValid(i)

(* the source of operation i is as it was when the run started *)
SourceUntouched(i) ==
    LET src == ops[i].source_path
    IN  IF src \in DOMAIN fs0
        THEN src \in DOMAIN fs /\ fs[src] = fs0[src]
        ELSE src \notin DOMAIN fs

(* C36: an operation that ended in error has left its source as it was;    *)
(* after a successful copy the source is unchanged and the target equals   *)
(* it; after a successful move the source is gone and the target holds     *)
(* what the source held.                                                   *)
C36_EffectOnSource ==
    \A i \in 1..Len(ops) :
        LET src == ops[i].source_path
            dst == ops[i].target_path
        IN  /\ ops[i].status = "error" => SourceUntouched(i)
            /\ ops[i].status = "pending" => SourceUntouched(i)
            /\ (ops[i].status = "success" /\ ops[i].operation_type = "copy") =>
                  /\ src \in DOMAIN fs0
                  /\ SourceUntouched(i)
                  /\ dst \in DOMAIN fs
                  /\ fs[dst] = fs[src]
            /\ (ops[i].status = "success" /\ ops[i].operation_type = "move") =>
                  /\ src \in DOMAIN fs0
                  /\ src \notin DOMAIN fs
                  /\ dst \in DOMAIN fs
                  /\ fs[dst] = fs0[src]

(* a run with a successful move, or a successful copy, and an operation    *)
(* that failed after its transfer had started writing                      *)
C36_Witness ==
    /\ pc = "done"
    /\ \E i, j \in 1..Len(ops) :
          /\ ops[i].status = "success"
          /\ ops[j].status = "error"
          /\ ops[j].source_path \in DOMAIN fs
          /\ \E k \in 1..Len(hist) : hist[k].op = j /\ hist[k].transfer = "failed"

(* C37: no two operations of a run have the same backup path, and when the *)
(* rollback of an operation reads its backup, the backup holds the content *)
(* the target had before the operation.                                    *)
C37_BackupsDistinct ==
    /\ \A i, j \in 1..Len(ops) :
          (i # j /\ ops[i].backup_path # None /\ ops[j].backup_path # None) =>
              ops[i].backup_path # ops[j].backup_path
    /\ (pc = "except" /\ ops[Current].backup_path # None /\ exists(ops[Current].backup_path)) =>
          fs[ops[Current].backup_path] = hist[Len(hist)].before

(***************************************************************************)
(* One file under every configuration of the two archive-extension keys:   *)
(* scanned (scan.py 26-28, 57), collected for a check batch (process.py    *)
(* 353-355, 373), planned (process.py 55-56) and compared (operation.py    *)
(* 141-146).  The target directory holds a file of the same name.          *)
(***************************************************************************)
ExtensionSets ==
    { DefaultArchiveExtensions, {".zip"}, DefaultArchiveExtensions \cup {".cb7"} }

ExtConfigs ==
    { [DefaultConfig EXCEPT !.archive_extensions = a,
                            !.file_operations_archive_extensions = f] :
        a \in ExtensionSets, f \in ExtensionSets }

ExtFiles == { File("a", ext, 2, TRUE) : ext \in {".zip", ".cbz", ".CBZ", ".cb7", ".txt"} }

(* b.zip.tdel, b.cbz.tdel: what an earlier check batch left of an invalid archive *)
TombstonedFiles ==
    { [kind |-> "file", name |-> "b", ext |-> ext, sfx |-> ".tdel", size |-> 2,
       stat_ok |-> TRUE] : ext \in {".zip", ".cbz"} }

InitExt ==
    /\ cfg \in ExtConfigs
    /\ \E file \in ExtFiles, tombstones \in Optional(TombstonedFiles) :
          /\ tree = [listable |-> TRUE, items |-> <<file>> \o tombstones]
          /\ fs = [p \in { MkPath(ScanRoot, file.name, file.ext),
                           MkPath(TargetRoot, file.name, file.ext) }
                         \cup { ItemPath(ScanRoot, tombstones[i]) : i \in 1..Len(tombstones) } |->
                      IF p.dir = ScanRoot THEN NewArchive("s") ELSE NewArchive("t")]
    /\ fs0 = fs
    /\ scan_result = None
    /\ target_structure = scan_directory_structure(TargetRoot,
                              [listable |-> TRUE, items |-> <<tree.items[1]>>])
    /\ selected_source = None
    /\ removed_count = None
    /\ removed_dirs = <<>>
    /\ is_move \in BOOLEAN
    /\ NoCheck
    /\ cmp_args = <<None, None>>
    /\ cmp_result = None
    /\ cmp_again = None
    /\ ops = <<>>
    /\ operations = <<>>
    /\ pc = "scan"
    /\ idx = 0
    /\ success_count = 0
    /\ error_count = 0
    /\ skip_answer = "not_asked"
    /\ now = 0
    /\ faults = 0
    /\ hist = <<>>

(* process.py 139 and 343: scan_directory_structure(source_dir) *)
ExtScan ==
    /\ pc = "scan"
    /\ scan_result' = scan_directory_structure(ScanRoot, tree)
    /\ pc' = "collect"
    /\ UNCHANGED <<fs, cfg, cmpVars, chkVars, tree, target_structure, selected_source,
                   removed_count, removed_dirs, is_move, ops, operations, idx, success_count,
                   error_count, skip_answer, now, faults, fs0, hist>>

(* process.py 353-386 *)
ExtCollect ==
    /\ pc = "collect"
    /\ files_to_process' = collect_files_from_structure(scan_result)
    /\ pc' = "plan"
    /\ UNCHANGED <<fs, cfg, cmpVars, scanVars, runRest, faults, tester_present, callVars,
                   histVars, launches, log, futures, collected, future, l_file_path,
                   l_new_path, journal, valid_count, invalid_count, processed>>

(* process.py 213-218: prepare_operations on the scanned pair *)
ExtPlan ==
    /\ pc = "plan"
    /\ ops' = prepare_operations(scan_result, target_structure,
                                 scan_result.path, target_structure.path, is_move)
    /\ pc' = "compare"
    /\ UNCHANGED <<fs, cfg, cmpVars, scanVars, chkVars, is_move, operations, idx, success_count,
                   error_count, skip_answer, now, faults, fs0, hist>>

(* process.py 229-237: analyze_operation on each planned operation *)
ExtCompare ==
    /\ pc = "compare"
    /\ IF ops = <<>>
       THEN UNCHANGED <<cmp_args, cmp_result>>
       ELSE /\ cmp_args' = <<ops[1].source_path, ops[1].target_path>>
            /\ cmp_result' = is_safe_to_overwrite(ops[1].source_path, ops[1].target_path)
    /\ pc' = "done"
    /\ UNCHANGED <<fs, cfg, cmp_again, scanVars, chkVars, is_move, ops, operations, idx,
                   success_count, error_count, skip_answer, now, faults, fs0, hist>>

NextExt == ExtScan \/ ExtCollect \/ ExtPlan \/ ExtCompare

SpecExt == InitExt /\ [][NextExt]_vars

(* C38: the scanner, the collector of a check batch and the comparator     *)
(* classify the file alike, and every planned operation had its archive    *)
(* contents compared.                                                      *)
C38_SameArchiveExtensions ==
    pc = "done" =>
        LET file_info == scan_result.files[1]
            scanner == file_info.is_archive
            collector == \E k \in 1..Len(files_to_process) : files_to_process[k] = file_info.path
            comparator == IsArchiveForCompare(file_info.path, file_info.path)
        IN  /\ scanner = collector
            /\ scanner = comparator
            /\ ops # <<>> => "files" \in DOMAIN cmp_result.source_info

(* C39: when the batch is over and its overall timeout did not fire, the   *)
(* valid and invalid counts add up to the number of submitted files and    *)
(* the reported number of processed files is that number too.              *)
C39_CountersConsistent ==
    (pc = "done" /\ ~TimedOut) =>
        /\ valid_count + invalid_count = Len(files_to_process)
        /\ processed = Len(files_to_process)

(* the tombstones lying in the scanned directory *)
ScannedTombstones ==
    { scan_result.files[k].path : k \in { j \in 1..Len(scan_result.files) :
                                           scan_result.files[j].path.sfx = ".tdel" } }

(* C40: a tombstone in the scanned directory is not among the files a check *)
(* batch collects for the tester, and no planned operation has it as its    *)
(* source.                                                                  *)
C40_TombstoneNeverSelected ==
    /\ pc \in {"plan", "compare", "done"} =>
          \A k \in 1..Len(files_to_process) : files_to_process[k] \notin ScannedTombstones
    /\ pc \in {"compare", "done"} =>
          \A i \in 1..Len(ops) : ops[i].source_path \notin ScannedTombstones

(* the tombstone of b.zip was scanned next to an archive that was collected *)
(* and planned                                                              *)
C40_Witness ==
    /\ pc = "done"
    /\ Tombstone(MkPath(ScanRoot, "b", ".zip")) \in ScannedTombstones
    /\ Len(files_to_process) = 1
    /\ Len(ops) = 1

====
